---------------------------- MODULE Spec2Model ----------------------------
(***************************************************************************)
(* A model of the BZ reminders extractor (src/reminders_app/               *)
(* bz-reminders-extractor): the cross-frame deduplicator (dedup.py) and    *)
(* the stability detector (frame_extractor.py).                            *)
(*                                                                         *)
(* Python strings are kept in the state as TLA+ strings; the operators     *)
(* that look inside a string (normalisation, word sets, regular            *)
(* expressions, difflib's SequenceMatcher, string ordering) work on its    *)
(* sequence of characters, Chars(s).  Confidences are hundredths           *)
(* (0.85 is 85); ratios are compared by cross-multiplication.              *)
(***************************************************************************)
EXTENDS Integers, Sequences, FiniteSets, TLC

(***************************************************************************)
(* Characters and strings                                                  *)
(***************************************************************************)

\* The characters of the model, in code-point order (Python compares strings
\* by code point).
Ascii ==
    << "\n", " ", "-", ".", "0", "1", "2", "3", "4", "5", "6", "7", "8", "9", ":",
       "A", "B", "C", "D", "E", "F", "G", "H", "I", "J", "K", "L", "M",
       "N", "O", "P", "Q", "R", "S", "T", "U", "V", "W", "X", "Y", "Z", "\\", "_",
       "a", "b", "c", "d", "e", "f", "g", "h", "i", "j", "k", "l", "m",
       "n", "o", "p", "q", "r", "s", "t", "u", "v", "w", "x", "y", "z", "~" >>

Ord(c) == CHOOSE i \in 1..Len(Ascii) : Ascii[i] = c

UpperFirst == Ord("A")
LowerFirst == Ord("a")

IsUpper(c) == Ord(c) >= UpperFirst /\ Ord(c) < UpperFirst + 26
IsLower(c) == Ord(c) >= LowerFirst /\ Ord(c) < LowerFirst + 26
IsDigit(c) == c \in {"0", "1", "2", "3", "4", "5", "6", "7", "8", "9"}
\* \s of Python's re, on the characters of the model
IsSpace(c) == c \in {" ", "\n"}
\* \w of Python's re
IsWord(c) == IsUpper(c) \/ IsLower(c) \/ IsDigit(c) \/ c = "_"

\* str.lower() on one character
LowerChar(c) == IF IsUpper(c) THEN Ascii[Ord(c) - UpperFirst + LowerFirst] ELSE c

\* The strings of the model and their characters.
Chars(s) ==
    CASE s = "" -> << >>
      [] s = "Dentist" -> <<"D","e","n","t","i","s","t">>
      [] s = "Dentist appoint" ->
            <<"D","e","n","t","i","s","t"," ","a","p","p","o","i","n","t">>
      [] s = "Dentist appointment" ->
            <<"D","e","n","t","i","s","t"," ","a","p","p","o","i","n","t",
              "m","e","n","t">>
      [] s = "Call mom" -> <<"C","a","l","l"," ","m","o","m">>
      [] s = "Oentlst" -> <<"O","e","n","t","l","s","t">>
      [] s = "Dentlst" -> <<"D","e","n","t","l","s","t">>
      [] s = "Dentist today" ->
            <<"D","e","n","t","i","s","t"," ","t","o","d","a","y">>
      [] s = "Thursday 13 Feb" ->
            <<"T","h","u","r","s","d","a","y"," ","1","3"," ","F","e","b">>
      [] s = "Thu 13 Feb" -> <<"T","h","u"," ","1","3"," ","F","e","b">>
      [] s = "Thursday 18 Feb" ->
            <<"T","h","u","r","s","d","a","y"," ","1","8"," ","F","e","b">>
      [] s = "Fri 14 Feb" -> <<"F","r","i"," ","1","4"," ","F","e","b">>
      [] s = "Tomorrow" -> <<"T","o","m","o","r","r","o","w">>
      [] s = "Tomorow" -> <<"T","o","m","o","r","o","w">>
      [] s = "09:05" -> <<"0","9",":","0","5">>
      [] s = "10:30" -> <<"1","0",":","3","0">>
      [] s = "13:19" -> <<"1","3",":","1","9">>
      [] s = "9:05" -> <<"9",":","0","5">>
      [] s = "13.19 Call mom" ->
            <<"1","3",".","1","9"," ","C","a","l","l"," ","m","o","m">>
      [] s = "appointment" -> <<"a","p","p","o","i","n","t","m","e","n","t">>
      [] s = "today" -> <<"t","o","d","a","y">>
      [] s = "see notes" -> <<"s","e","e"," ","n","o","t","e","s">>
      [] s = "Tomorrow Sat 14 Feb" ->
            <<"T","o","m","o","r","r","o","w"," ","S","a","t"," ","1","4"," ",
              "F","e","b">>
      [] s = "tomorrow Sat 14 Feb" ->
            <<"t","o","m","o","r","r","o","w"," ","S","a","t"," ","1","4"," ",
              "F","e","b">>
      [] s = "C" -> <<"C">>
      [] s = "Reminders" -> <<"R","e","m","i","n","d","e","r","s">>
      [] s = "9:05 Dentist" ->
            <<"9",":","0","5"," ","D","e","n","t","i","s","t">>
      [] s = "9.05 Dentist appointment" ->
            <<"9",".","0","5"," ","D","e","n","t","i","s","t"," ","a","p","p","o","i","n","t","m","e","n","t">>
      [] s = "13:19 Call mom" ->
            <<"1","3",":","1","9"," ","C","a","l","l"," ","m","o","m">>
      [] s = "Thu 13 Fcb" ->
            <<"T","h","u"," ","1","3"," ","F","c","b">>
      [] s = "Call mom\nsee notes" ->
            <<"C","a","l","l"," ","m","o","m","\n","s","e","e"," ","n","o","t","e","s">>
      [] s = "title~datetime~recurrence" ->
            <<"t","i","t","l","e","~","d","a","t","e","t","i","m","e","~","r","e","c","u","r","r","e","n","c","e">>

\* The date labels, times and texts of the model
Labels == {"Thursday 13 Feb", "Thu 13 Feb", "Thursday 18 Feb", "Fri 14 Feb",
           "Tomorrow", "Tomorow"}
Times == {"09:05", "10:30", "13:19"}
Texts == {"", "Dentist", "Dentist appoint", "Dentist appointment", "Call mom",
          "Oentlst", "Dentlst", "Dentist today"}

\* len(s), tabulated over the strings of the model
StrLenTable == [s \in Labels \cup Times \cup Texts |-> Len(Chars(s))]
StrLen(s) == StrLenTable[s]

\* a < b on Python strings: lexicographic by code point
RECURSIVE SeqLess(_, _)
SeqLess(a, b) ==
    IF b = << >> THEN FALSE
    ELSE IF a = << >> THEN TRUE
    ELSE IF Head(a) # Head(b) THEN Ord(Head(a)) < Ord(Head(b))
    ELSE SeqLess(Tail(a), Tail(b))

\* tabulated over the times of the model, the only strings that are ordered
StrLessTable == [s \in Times |-> [t \in Times |-> SeqLess(Chars(s), Chars(t))]]
StrLess(s, t) == StrLessTable[s][t]

\* str.split(): the maximal runs of non-whitespace characters, in order
RECURSIVE SplitFrom(_, _, _)
SplitFrom(cs, cur, acc) ==
    IF cs = << >> THEN (IF cur = << >> THEN acc ELSE Append(acc, cur))
    ELSE IF IsSpace(Head(cs))
         THEN SplitFrom(Tail(cs), << >>, IF cur = << >> THEN acc ELSE Append(acc, cur))
         ELSE SplitFrom(Tail(cs), Append(cur, Head(cs)), acc)

Split(cs) == SplitFrom(cs, << >>, << >>)

\* " ".join(words)
RECURSIVE JoinSpace(_)
JoinSpace(ws) ==
    IF ws = << >> THEN << >>
    ELSE IF Len(ws) = 1 THEN ws[1]
    ELSE ws[1] \o <<" ">> \o JoinSpace(Tail(ws))

\* _normalize_text: lower(), strip(), every whitespace run becomes one space.
\* After strip() the runs are interior, so the result is the words of the
\* lowered text joined by single spaces.
_normalize_text(text) ==
    LET lowered == [i \in 1..Len(Chars(text)) |-> LowerChar(Chars(text)[i])]
    IN  JoinSpace(Split(lowered))

\* set(_normalize_text(x).split())
WordSet(text) ==
    LET ws == Split(_normalize_text(text))
    IN  {ws[i] : i \in 1..Len(ws)}

(***************************************************************************)
(* difflib.SequenceMatcher(None, a, b).ratio(), for strings shorter than   *)
(* 200 characters (no automatic junk): the longest matching block          *)
(* (earliest in a, then earliest in b), then the same to its left and to   *)
(* its right; ratio = 2 * matched / (len(a) + len(b)).                     *)
(***************************************************************************)

\* length of the common run of a from i and b from j, within [.., ahi) x [.., bhi)
RECURSIVE RunLen(_, _, _, _, _, _)
RunLen(a, b, i, j, ahi, bhi) ==
    IF i < ahi /\ j < bhi /\ a[i] = b[j]
    THEN 1 + RunLen(a, b, i + 1, j + 1, ahi, bhi)
    ELSE 0

\* find_longest_match(alo, ahi, blo, bhi) with half-open 1-based ranges:
\* <<i, j, k>>, k maximal, then i minimal, then j minimal
FindLongestMatch(a, b, alo, ahi, blo, bhi) ==
    LET cand == {<<i, j>> : i \in alo..(ahi - 1), j \in blo..(bhi - 1)}
        best == IF cand = {} THEN 0
                ELSE CHOOSE k \in 0..(ahi - alo) :
                        /\ \E p \in cand : RunLen(a, b, p[1], p[2], ahi, bhi) = k
                        /\ \A p \in cand : RunLen(a, b, p[1], p[2], ahi, bhi) <= k
    IN  IF best = 0 THEN <<alo, blo, 0>>
        ELSE LET hits == {p \in cand : RunLen(a, b, p[1], p[2], ahi, bhi) = best}
                 i0 == CHOOSE i \in alo..(ahi - 1) :
                          /\ \E p \in hits : p[1] = i
                          /\ \A p \in hits : p[1] >= i
                 j0 == CHOOSE j \in blo..(bhi - 1) :
                          /\ <<i0, j>> \in hits
                          /\ \A p \in hits : p[1] = i0 => p[2] >= j
             IN  <<i0, j0, best>>

\* total size of get_matching_blocks() within the ranges
RECURSIVE MatchedChars(_, _, _, _, _, _)
MatchedChars(a, b, alo, ahi, blo, bhi) ==
    IF alo >= ahi \/ blo >= bhi THEN 0
    ELSE LET m == FindLongestMatch(a, b, alo, ahi, blo, bhi)
         IN  IF m[3] = 0 THEN 0
             ELSE m[3]
                  + MatchedChars(a, b, alo, m[1], blo, m[2])
                  + MatchedChars(a, b, m[1] + m[3], ahi, m[2] + m[3], bhi)

\* A ratio is a pair <<numerator, denominator>>, denominator > 0.
RatioGeq(r, num, den) == r[1] * den >= num * r[2]
RatioLess(r, s) == r[1] * s[2] < s[1] * r[2]
RatioMax(r, s) == IF RatioLess(r, s) THEN s ELSE r

\* SequenceMatcher.ratio(): 1.0 for two empty strings
SeqRatio(a, b) ==
    IF Len(a) + Len(b) = 0 THEN <<1, 1>>
    ELSE <<2 * MatchedChars(a, b, 1, Len(a) + 1, 1, Len(b) + 1), Len(a) + Len(b)>>

(***************************************************************************)
(* dedup.py: similarity and matching                                       *)
(***************************************************************************)

\* config.DEDUP_SIMILARITY_THRESHOLD = 0.85, in hundredths
DEDUP_SIMILARITY_THRESHOLD == 85

\* Jaccard similarity of the two word sets
_word_set_similarity(a, b) ==
    LET words_a == WordSet(a)
        words_b == WordSet(b)
    IN  IF words_a = {} /\ words_b = {} THEN <<1, 1>>
        ELSE IF words_a = {} \/ words_b = {} THEN <<0, 1>>
        ELSE <<Cardinality(words_a \cap words_b), Cardinality(words_a \cup words_b)>>

_sequence_similarity(a, b) == SeqRatio(_normalize_text(a), _normalize_text(b))

_text_similarity(a, b) == RatioMax(_word_set_similarity(a, b), _sequence_similarity(a, b))

\* re.search(r"(\d{1,2})\s+(\w{3})", s): the match that starts leftmost, the
\* day with two digits tried before one; <<day, month>> or << >> for None.
\* \s+ takes the whole whitespace run (a shorter one would leave whitespace
\* where \w is required).
RECURSIVE SpaceRun(_, _)
SpaceRun(cs, p) == IF p <= Len(cs) /\ IsSpace(cs[p]) THEN 1 + SpaceRun(cs, p + 1) ELSE 0

DayMonthAt(cs, i, d) ==
    LET p == i + d
        w == SpaceRun(cs, p)
        q == p + w
    IN  /\ i + d - 1 <= Len(cs)
        /\ \A k \in i..(i + d - 1) : IsDigit(cs[k])
        /\ w >= 1
        /\ q + 2 <= Len(cs)
        /\ \A k \in q..(q + 2) : IsWord(cs[k])

DayMonthGroups(cs, i, d) ==
    LET q == i + d + SpaceRun(cs, i + d)
    IN  <<SubSeq(cs, i, i + d - 1), SubSeq(cs, q, q + 2)>>

DayMonthSearch(s) ==
    LET cs == Chars(s)
        starts == {i \in 1..Len(cs) : DayMonthAt(cs, i, 2) \/ DayMonthAt(cs, i, 1)}
    IN  IF starts = {} THEN << >>
        ELSE LET i == CHOOSE m \in starts : \A n \in starts : m <= n
             IN  IF DayMonthAt(cs, i, 2) THEN DayMonthGroups(cs, i, 2)
                 ELSE DayMonthGroups(cs, i, 1)

LowerSeq(cs) == [i \in 1..Len(cs) |-> LowerChar(cs[i])]

\* Variants of _date_matches, for testing what the properties detect: any of
\* the three conditions suffices; the day/month key is not consulted.
_date_matches_any(a, b) ==
    LET ma == DayMonthSearch(a)
        mb == DayMonthSearch(b)
    IN  \/ a = b
        \/ /\ ma # << >> /\ mb # << >>
           /\ ma[1] = mb[1] /\ LowerSeq(ma[2]) = LowerSeq(mb[2])
        \/ RatioGeq(_sequence_similarity(a, b), DEDUP_SIMILARITY_THRESHOLD, 100)

_date_matches_no_key(a, b) ==
    IF a = b THEN TRUE
    ELSE RatioGeq(_sequence_similarity(a, b), DEDUP_SIMILARITY_THRESHOLD, 100)

\* Whether two date labels refer to the same date
_date_matches(a, b) ==
    IF a = b THEN TRUE
    ELSE LET ma == DayMonthSearch(a)
             mb == DayMonthSearch(b)
         IN  IF ma # << >> /\ mb # << >>
             THEN ma[1] = mb[1] /\ LowerSeq(ma[2]) = LowerSeq(mb[2])
             ELSE RatioGeq(_sequence_similarity(a, b), DEDUP_SIMILARITY_THRESHOLD, 100)

\* The comparisons of the two rules, tabulated over the labels and texts of
\* the model (each is evaluated once per pair, not once per state).
DateMatchesTable == [a \in Labels |-> [b \in Labels |-> _date_matches(a, b)]]
TextSimilarityTable == [a \in Texts |-> [b \in Texts |-> _text_similarity(a, b)]]

\* The identity rule
_reminders_match(a, b) ==
    IF ~DateMatchesTable[a.date][b.date] THEN FALSE
    ELSE IF a.time # b.time THEN FALSE
    ELSE IF ~RatioGeq(TextSimilarityTable[a.text][b.text], DEDUP_SIMILARITY_THRESHOLD, 100)
         THEN FALSE
    ELSE TRUE

\* len(short_words & long_words) / len(short_words) of the substring rule
WordOverlap(short, long) ==
    <<Cardinality(WordSet(short) \cap WordSet(long)), Cardinality(WordSet(short))>>

WordSetTable == [x \in Texts |-> WordSet(x)]
WordOverlapTable == [a \in Texts |-> [b \in Texts |-> WordOverlap(a, b)]]

\* The substring (containment) rule
_is_substring_match(a, b) ==
    IF ~DateMatchesTable[a.date][b.date] THEN FALSE
    ELSE IF a.time # b.time THEN FALSE
    ELSE LET short == IF StrLen(a.text) <= StrLen(b.text) THEN a.text ELSE b.text
             long == IF StrLen(a.text) <= StrLen(b.text) THEN b.text ELSE a.text
         IN  IF short = "" THEN FALSE
             ELSE IF WordSetTable[short] = {} THEN FALSE
             ELSE RatioGeq(WordOverlapTable[short][long], 8, 10)

(***************************************************************************)
(* dedup.py: deduplicate                                                   *)
(***************************************************************************)

\* Whether the scan of the merged list stops at entry i for this reminder
StopsAt(merged, i, reminder) ==
    _reminders_match(merged[i], reminder) \/ _is_substring_match(merged[i], reminder)

\* Variants of MergeIdentity, for testing what the properties detect: the
\* incoming reminder always takes the slot; it takes the slot on a tie too.
MergeIdentityLastWins(existing, reminder) ==
    [reminder EXCEPT !.repeats = existing.repeats \/ reminder.repeats]

MergeIdentityTieReplaces(existing, reminder) ==
    IF reminder.confidence >= existing.confidence
    THEN [reminder EXCEPT !.repeats = existing.repeats \/ reminder.repeats]
    ELSE [existing EXCEPT !.repeats = existing.repeats \/ reminder.repeats]

\* A variant of MergeIdentity, for testing what the properties detect: a
\* more confident reminder takes the slot with its own repeats flag.
MergeIdentityDropsFlag(existing, reminder) ==
    IF reminder.confidence > existing.confidence
    THEN reminder
    ELSE [existing EXCEPT !.repeats = existing.repeats \/ reminder.repeats]

\* The identity branch: a strictly more confident reminder takes the slot
\* (the whole object, with the OR of the repeats flags); otherwise only the
\* repeats flag of the stored entry changes.
MergeIdentity(existing, reminder) ==
    IF reminder.confidence > existing.confidence
    THEN [reminder EXCEPT !.repeats = existing.repeats \/ reminder.repeats]
    ELSE [existing EXCEPT !.repeats = existing.repeats \/ reminder.repeats]

\* A variant of MergeSubstring, for testing what the properties detect: the
\* shorter text wins whatever its confidence.
MergeSubstringAnyConfidence(existing, reminder) ==
    LET flagged == [existing EXCEPT !.repeats = existing.repeats \/ reminder.repeats]
    IN  IF StrLen(reminder.text) < StrLen(existing.text)
        THEN [flagged EXCEPT !.text = reminder.text, !.confidence = reminder.confidence]
        ELSE flagged

\* The substring branch: the repeats flags are OR-ed; a strictly shorter text
\* with confidence >= 0.8 * stored replaces the stored text and confidence.
MergeSubstring(existing, reminder) ==
    LET flagged == [existing EXCEPT !.repeats = existing.repeats \/ reminder.repeats]
    IN  IF /\ StrLen(reminder.text) < StrLen(existing.text)
           /\ 10 * reminder.confidence >= 8 * existing.confidence
        THEN [flagged EXCEPT !.text = reminder.text, !.confidence = reminder.confidence]
        ELSE flagged

\* A variant of FirstOf, for testing what the properties detect: the scan
\* goes on to the last entry at which it could stop.
FirstOfLast(stops) ==
    IF stops = {} THEN 0 ELSE CHOOSE m \in stops : \A n \in stops : m >= n

\* The first entry at which the scan stops, 0 when it stops at none
FirstOf(stops) ==
    IF stops = {} THEN 0 ELSE CHOOSE m \in stops : \A n \in stops : m <= n

FirstStop(merged, reminder) ==
    FirstOf({i \in 1..Len(merged) : StopsAt(merged, i, reminder)})

\* The body of the scan once it has stopped at entry i (i = 0: it stopped at
\* none, and the reminder is appended)
MergeAt(merged, i, reminder) ==
    IF i = 0 THEN Append(merged, reminder)
    ELSE IF _reminders_match(merged[i], reminder)
         THEN [merged EXCEPT ![i] = MergeIdentity(merged[i], reminder)]
         ELSE [merged EXCEPT ![i] = MergeSubstring(merged[i], reminder)]

\* A variant of MergeOne, for testing what the properties detect: a reminder
\* with empty text is matched and appended like any other.
MergeOneKeepsEmpty(merged, reminder) ==
    LET i == FirstStop(merged, reminder)
    IN  IF i = 0 THEN Append(merged, reminder)
        ELSE IF _reminders_match(merged[i], reminder)
             THEN [merged EXCEPT ![i] = MergeIdentity(merged[i], reminder)]
             ELSE [merged EXCEPT ![i] = MergeSubstring(merged[i], reminder)]

\* The body of the loop over one frame's reminders: one incoming reminder
\* against the merged list so far.
MergeOne(merged, reminder) ==
    IF reminder.text = "" THEN merged
    ELSE MergeAt(merged, FirstStop(merged, reminder), reminder)

\* date_order[label]: the number of distinct labels before the label's first
\* entry in the list
DateOrder(list, label) ==
    LET first == CHOOSE i \in 1..Len(list) :
                    /\ list[i].date = label
                    /\ \A j \in 1..(i - 1) : list[j].date # label
    IN  Cardinality({list[j].date : j \in 1..(first - 1)})

\* A variant of KeyLess, for testing what the properties detect: the time alone.
KeyLessTimeOnly(list, r, s) == StrLess(r.time, s.time)

\* the sort key (date_order[r.date], r.time), compared as Python compares tuples
KeyLess(list, r, s) ==
    \/ DateOrder(list, r.date) < DateOrder(list, s.date)
    \/ /\ DateOrder(list, r.date) = DateOrder(list, s.date)
       /\ StrLess(r.time, s.time)

\* list.sort(key=...): stable
RECURSIVE InsertSorted(_, _, _)
InsertSorted(list, sorted, r) ==
    IF sorted = << >> THEN <<r>>
    ELSE IF KeyLess(list, r, sorted[Len(sorted)])
         THEN Append(InsertSorted(list, SubSeq(sorted, 1, Len(sorted) - 1), r),
                     sorted[Len(sorted)])
         ELSE Append(sorted, r)

RECURSIVE SortPrefix(_, _)
SortPrefix(list, n) ==
    IF n = 0 THEN << >> ELSE InsertSorted(list, SortPrefix(list, n - 1), list[n])

SortMerged(list) == SortPrefix(list, Len(list))

\* the reminders of all frames, in frame order
RECURSIVE Flatten(_)
Flatten(frames) == IF frames = << >> THEN << >> ELSE Head(frames) \o Flatten(Tail(frames))

RECURSIVE MergeAll(_, _)
MergeAll(merged, rs) ==
    IF rs = << >> THEN merged ELSE MergeAll(MergeOne(merged, Head(rs)), Tail(rs))

\* deduplicate(per_frame_reminders)
deduplicate(frames) == SortMerged(MergeAll(<< >>, Flatten(frames)))

(***************************************************************************)
(* frame_extractor.py: the stability detector.  A frame is its index; the  *)
(* comparison of a frame with the previous one is an input (whether the    *)
(* mean pixel difference is below config.STABILITY_THRESHOLD).             *)
(***************************************************************************)

\* A variant of the position picked, for testing what the properties detect:
\* the trimmed branch picks the first frame of the usable range.
PickPositionStartOfUsable(n, skip) ==
    IF n <= 2 * skip THEN n \div 2
    ELSE skip

\* _capture_from_stable: the position picked in the buffer (0-based)
PickPosition(n, skip) ==
    IF n <= 2 * skip THEN n \div 2
    ELSE skip + ((n - 2 * skip) \div 2)

\* buffer[pick] raises IndexError when the position is not in the buffer
CaptureFails(buffer, skip) == PickPosition(Len(buffer), skip) >= Len(buffer)

\* A variant of _capture_from_stable, for testing what the properties detect:
\* every capture is written under sequence number 0.
_capture_from_stable_same_path(buffer, seq, skip) ==
    [seq |-> 0, frame |-> buffer[PickPosition(Len(buffer), skip) + 1]]

\* the frame written as frame_<seq>.png
_capture_from_stable(buffer, seq, skip) ==
    [seq |-> seq, frame |-> buffer[PickPosition(Len(buffer), skip) + 1]]

\* One element of saved_frames: the captured frame, with the period the log
\* line of the capture reports (frames first-last, duration).
Saved(capture, first, last, duration) ==
    [seq |-> capture.seq, frame |-> capture.frame,
     first |-> first, last |-> last, duration |-> duration]

(***************************************************************************)
(* ocr_processor.py and parser.py: the layout parser.  A box keeps its     *)
(* text as a string; the texts the parser builds (row texts, bodies,       *)
(* times, date labels) are sequences of characters.  A y-centre is kept    *)
(* doubled (y_min + y_max), so that it stays an integer; fractions of the  *)
(* frame size are hundredths.                                              *)
(***************************************************************************)

\* str.strip()
RECURSIVE LStrip(_)
LStrip(cs) == IF cs # << >> /\ IsSpace(Head(cs)) THEN LStrip(Tail(cs)) ELSE cs

RECURSIVE RStrip(_)
RStrip(cs) ==
    IF cs # << >> /\ IsSpace(cs[Len(cs)]) THEN RStrip(SubSeq(cs, 1, Len(cs) - 1)) ELSE cs

Strip(cs) == RStrip(LStrip(cs))

\* the lengths of the runs of \d and of \w that start at position p
RECURSIVE DigitRun(_, _)
DigitRun(cs, p) == IF p <= Len(cs) /\ IsDigit(cs[p]) THEN 1 + DigitRun(cs, p + 1) ELSE 0

RECURSIVE WordRun(_, _)
WordRun(cs, p) == IF p <= Len(cs) /\ IsWord(cs[p]) THEN 1 + WordRun(cs, p + 1) ELSE 0

\* the literal lit at position p of cs; with re.IGNORECASE when ci
LiteralAt(cs, p, lit, ci) ==
    /\ p + Len(lit) - 1 <= Len(cs)
    /\ \A k \in 1..Len(lit) :
         IF ci THEN LowerChar(cs[p + k - 1]) = LowerChar(lit[k])
         ELSE cs[p + k - 1] = lit[k]

\* config.DATE_PATTERNS: the alternatives of the weekday groups
WeekdayAbbreviations ==
    { <<"M","o","n">>, <<"T","u","e">>, <<"W","e","d">>, <<"T","h","u">>,
      <<"F","r","i">>, <<"S","a","t">>, <<"S","u","n">> }

WeekdayNames ==
    { <<"M","o","n","d","a","y">>, <<"T","u","e","s","d","a","y">>,
      <<"W","e","d","n","e","s","d","a","y">>, <<"T","h","u","r","s","d","a","y">>,
      <<"F","r","i","d","a","y">>, <<"S","a","t","u","r","d","a","y">>,
      <<"S","u","n","d","a","y">> }

TomorrowLiteral == <<"T","o","m","o","r","r","o","w">>

\* \s+\d{1,2}\s+\w{n,} at position p.  \d{1,2} must end where whitespace
\* begins, so the run of digits has one or two digits.
DayMonthTail(cs, p, n) ==
    LET w1 == SpaceRun(cs, p)
        d == DigitRun(cs, p + w1)
        w2 == SpaceRun(cs, p + w1 + d)
    IN  /\ w1 >= 1
        /\ d \in {1, 2}
        /\ w2 >= 1
        /\ WordRun(cs, p + w1 + d + w2) >= n

\* ^Tomorrow\s+(?:Mon|...|Sun)\w*\s+\d{1,2}\s+\w+
TomorrowPattern(cs) ==
    LET w == SpaceRun(cs, 9)
    IN  /\ LiteralAt(cs, 1, TomorrowLiteral, TRUE)
        /\ w >= 1
        /\ \E day \in WeekdayAbbreviations :
              /\ LiteralAt(cs, 9 + w, day, TRUE)
              /\ DayMonthTail(cs, 9 + w + 3 + WordRun(cs, 9 + w + 3), 1)

\* ^(?:Monday|...|Sunday)\s+\d{1,2}\s+\w{3,}
WeekdayNamePattern(cs) ==
    \E day \in WeekdayNames :
        LiteralAt(cs, 1, day, TRUE) /\ DayMonthTail(cs, 1 + Len(day), 3)

\* ^(?:Mon|...|Sun)\s+\d{1,2}\s+\w{3,}
WeekdayAbbreviationPattern(cs) ==
    \E day \in WeekdayAbbreviations :
        LiteralAt(cs, 1, day, TRUE) /\ DayMonthTail(cs, 1 + Len(day), 3)

\* Check if text matches a date header pattern
_is_date_header(text) ==
    LET cs == Strip(text)
    IN  TomorrowPattern(cs) \/ WeekdayNamePattern(cs) \/ WeekdayAbbreviationPattern(cs)

\* re.sub(r"^Tomorrow\s+", "", current_date): case-sensitive
RemoveTomorrowPrefix(cs) ==
    LET w == SpaceRun(cs, 9)
    IN  IF LiteralAt(cs, 1, TomorrowLiteral, FALSE) /\ w >= 1
        THEN SubSeq(cs, 9 + w, Len(cs))
        ELSE cs

\* \d{1,2}[:.]\d{2} at the start of t, with h hour digits
TimeAt(t, h) ==
    /\ Len(t) >= h + 3
    /\ \A k \in 1..h : IsDigit(t[k])
    /\ t[h + 1] \in {":", "."}
    /\ IsDigit(t[h + 2])
    /\ IsDigit(t[h + 3])

\* .* from position p: up to the end of the line
RECURSIVE LineFrom(_, _)
LineFrom(cs, p) ==
    IF p > Len(cs) \/ cs[p] = "\n" THEN << >> ELSE <<cs[p]>> \o LineFrom(cs, p + 1)

\* _extract_time_prefix: <<time, remaining_text>>, or << >> for None
_extract_time_prefix(text) ==
    LET t == Strip(text)
        prefixed == {h \in {1, 2} : TimeAt(t, h) /\ SpaceRun(t, h + 4) >= 1}
        alone == {h \in {1, 2} : TimeAt(t, h) /\ Len(t) = h + 3}
    IN  IF prefixed # {}
        THEN LET h == CHOOSE x \in prefixed : \A y \in prefixed : x >= y
             IN  <<SubSeq(t, 1, h + 3), LineFrom(t, h + 4 + SpaceRun(t, h + 4))>>
        ELSE IF alone # {} THEN <<t, << >> >>
        ELSE << >>

\* str.replace(".", ":")
DotsToColons(cs) == [i \in 1..Len(cs) |-> IF cs[i] = "." THEN ":" ELSE cs[i]]

\* str.split(":")
RECURSIVE SplitColon(_, _, _)
SplitColon(cs, cur, acc) ==
    IF cs = << >> THEN Append(acc, cur)
    ELSE IF Head(cs) = ":" THEN SplitColon(Tail(cs), << >>, Append(acc, cur))
    ELSE SplitColon(Tail(cs), Append(cur, Head(cs)), acc)

\* int(s) for a string of digits
RECURSIVE IntOf(_)
IntOf(ds) ==
    IF ds = << >> THEN 0
    ELSE 10 * IntOf(SubSeq(ds, 1, Len(ds) - 1)) + (Ord(ds[Len(ds)]) - Ord("0"))

DigitChar(n) == Ascii[Ord("0") + n]

\* the decimal digits of n
RECURSIVE Decimal(_)
Decimal(n) == IF n < 10 THEN <<DigitChar(n)>> ELSE Append(Decimal(n \div 10), DigitChar(n % 10))

\* f"{n:02d}"
ZeroPad2(n) == IF n < 10 THEN <<"0">> \o Decimal(n) ELSE Decimal(n)

\* A variant of _normalize_time, for testing what the properties detect: the
\* hour is not padded.
_normalize_time_no_pad(time_str) == DotsToColons(Strip(time_str))

\* Normalize time to HH:MM format (replace . with :, zero-pad)
_normalize_time(time_str) ==
    LET t == DotsToColons(Strip(time_str))
        parts == SplitColon(t, << >>, << >>)
    IN  IF Len(parts) = 2 THEN ZeroPad2(IntOf(parts[1])) \o <<":">> \o parts[2] ELSE t

\* config.py
OCR_CONFIDENCE_THRESHOLD == 30
CONTENT_Y_TOP == 12
CONTENT_Y_BOTTOM == 88
ROW_Y_TOLERANCE == 60
REPEAT_ICON_X_THRESHOLD == 88
REPEAT_ICON_MAX_CONFIDENCE == 80
REPEAT_ICON_MAX_TEXT_LEN == 3
DEFAULT_INITIAL_DATE == "Thursday 13 Feb"

\* parser.py
SUB_LINE_TOLERANCE == 25
ICON_ROW_TOLERANCE == 50

\* A single OCR detection with spatial info
OCRBox(text, confidence, x_min, y_min, y_max) ==
    [text |-> text, confidence |-> confidence, x_min |-> x_min, y_min |-> y_min,
     y_max |-> y_max]

\* twice OCRBox.y_center
YCenter2(b) == b.y_min + b.y_max

Abs(n) == IF n < 0 THEN 0 - n ELSE n

\* sorted(seq, key=...): stable, keys[i] is the key of seq[i]
RECURSIVE InsertIndex(_, _, _)
InsertIndex(keys, sorted, i) ==
    IF sorted = << >> THEN <<i>>
    ELSE IF keys[Head(sorted)] <= keys[i]
         THEN <<Head(sorted)>> \o InsertIndex(keys, Tail(sorted), i)
         ELSE <<i>> \o sorted

RECURSIVE SortedIndices(_, _)
SortedIndices(keys, n) ==
    IF n = 0 THEN << >> ELSE InsertIndex(keys, SortedIndices(keys, n - 1), n)

SortedBy(seq, keys) ==
    LET idx == SortedIndices(keys, Len(seq))
    IN  [k \in 1..Len(seq) |-> seq[idx[k]]]

SortedByYCenter(boxes) == SortedBy(boxes, [k \in 1..Len(boxes) |-> YCenter2(boxes[k])])
SortedByXMin(boxes) == SortedBy(boxes, [k \in 1..Len(boxes) |-> boxes[k].x_min])

RECURSIVE SumYCenter2(_)
SumYCenter2(boxes) ==
    IF boxes = << >> THEN 0 ELSE YCenter2(Head(boxes)) + SumYCenter2(Tail(boxes))

\* abs(box.y_center - mean y_center of group) <= tolerance
NearMean(box, group, tolerance) ==
    Abs(YCenter2(box) * Len(group) - SumYCenter2(group)) <= 2 * tolerance * Len(group)

\* The greedy clustering used at both levels: a box joins the open group if
\* its y-centre is within the tolerance of the group's running mean,
\* otherwise the group is closed and the box opens the next one.
RECURSIVE Cluster(_, _, _, _)
Cluster(rest, current, closed, tolerance) ==
    IF rest = << >> THEN Append(closed, current)
    ELSE IF NearMean(Head(rest), current, tolerance)
         THEN Cluster(Tail(rest), Append(current, Head(rest)), closed, tolerance)
         ELSE Cluster(Tail(rest), <<Head(rest)>>, Append(closed, current), tolerance)

RECURSIVE Concat(_)
Concat(lists) == IF lists = << >> THEN << >> ELSE Head(lists) \o Concat(Tail(lists))

\* A variant of _order_row_boxes, for testing what the properties detect: the
\* whole row is sorted by x, with no sub-lines.
_order_row_boxes_no_sub_lines(boxes) == SortedByXMin(SortedByYCenter(boxes))

\* Order boxes within a row: sub-lines by tight y-proximity, each sorted by x
_order_row_boxes(boxes) ==
    IF Len(boxes) <= 1 THEN boxes
    ELSE LET sorted_by_y == SortedByYCenter(boxes)
             sub_lines == Cluster(Tail(sorted_by_y), <<Head(sorted_by_y)>>, << >>,
                                  SUB_LINE_TOLERANCE)
         IN  Concat([k \in 1..Len(sub_lines) |-> SortedByXMin(sub_lines[k])])

\* Group OCR boxes into rows by y-coordinate proximity
_group_into_rows(boxes) ==
    IF boxes = << >> THEN << >>
    ELSE LET sorted_boxes == SortedByYCenter(boxes)
             rows == Cluster(Tail(sorted_boxes), <<Head(sorted_boxes)>>, << >>,
                             ROW_Y_TOLERANCE)
         IN  [k \in 1..Len(rows) |-> _order_row_boxes(rows[k])]

\* Filter out boxes in the status bar, app header, and nav bar regions
_filter_content_boxes(boxes, frame_height) ==
    SelectSeq(boxes, LAMBDA b : /\ b.y_min * 100 >= frame_height * CONTENT_Y_TOP
                                /\ b.y_max * 100 <= frame_height * CONTENT_Y_BOTTOM)

\* Detect the repeat icon from OCR: short, low-confidence text at the right edge
_is_repeat_icon_ocr(box, frame_width) ==
    /\ box.x_min * 100 > frame_width * REPEAT_ICON_X_THRESHOLD
    /\ box.confidence <= REPEAT_ICON_MAX_CONFIDENCE
    /\ Len(Strip(Chars(box.text))) <= REPEAT_ICON_MAX_TEXT_LEN

\* Check if any repeat icon y-position matches the row's y-position (the mean
\* y-centre of the row's boxes)
_row_has_repeat_icon_pixel(row, icon_y_positions) ==
    \E k \in 1..Len(icon_y_positions) :
        Abs(SumYCenter2(row) - 2 * Len(row) * icon_y_positions[k]) < 2 * ICON_ROW_TOLERANCE * Len(row)

\* " ".join(b.text for b in row).strip(), whitespace runs collapsed
RowText(row) == JoinSpace(Split(JoinSpace([k \in 1..Len(row) |-> Chars(row[k].text)])))

\* The scan of a row's boxes for the time: the first box that yields a time
\* gives time_str and its remainder; every other box gives its text.
RECURSIVE ScanBoxes(_, _, _)
ScanBoxes(row, k, st) ==
    IF k > Len(row) THEN st
    ELSE LET extracted == IF st.time_str = << >>
                          THEN _extract_time_prefix(Chars(row[k].text))
                          ELSE << >>
         IN  IF extracted # << >>
             THEN ScanBoxes(row, k + 1,
                            [time_str |-> extracted[1],
                             text_parts |-> IF extracted[2] # << >>
                                            THEN Append(st.text_parts, extracted[2])
                                            ELSE st.text_parts])
             ELSE ScanBoxes(row, k + 1,
                            [st EXCEPT !.text_parts = Append(@, Chars(row[k].text))])

RECURSIVE SumConfidence(_)
SumConfidence(row) ==
    IF row = << >> THEN 0 ELSE Head(row).confidence + SumConfidence(Tail(row))

\* A variant of ParseRow, for testing what the properties detect: a row with
\* no time becomes a reminder of its own.
ParseRowContinuationEmits(st, row, icon_y_positions, ocr_repeat_ys) ==
    LET full_text == RowText(row)
        scan == ScanBoxes(row, 1, [time_str |-> << >>, text_parts |-> << >>])
    IN  IF _is_date_header(full_text)
        THEN [st EXCEPT !.current_date = RemoveTomorrowPrefix(Strip(full_text))]
        ELSE [st EXCEPT !.reminders =
                 Append(@, [date |-> st.current_date,
                            time |-> _normalize_time(scan.time_str),
                            text |-> IF scan.time_str = << >> THEN full_text
                                     ELSE Strip(JoinSpace(scan.text_parts)),
                            repeats |-> FALSE,
                            confidence |-> <<SumConfidence(row), Len(row)>>])]

\* Variants of ParseRow, for testing what the properties detect: a row with no
\* time is dropped; a continuation is appended without the line break.
ParseRowContinuationDropped(st, row, icon_y_positions, ocr_repeat_ys) ==
    LET full_text == RowText(row)
        scan == ScanBoxes(row, 1, [time_str |-> << >>, text_parts |-> << >>])
    IN  IF _is_date_header(full_text)
        THEN [st EXCEPT !.current_date = RemoveTomorrowPrefix(Strip(full_text))]
        ELSE IF scan.time_str = << >> THEN st
        ELSE [st EXCEPT !.reminders =
                 Append(@, [date |-> st.current_date,
                            time |-> _normalize_time(scan.time_str),
                            text |-> Strip(JoinSpace(scan.text_parts)),
                            repeats |-> \/ _row_has_repeat_icon_pixel(row, icon_y_positions)
                                        \/ _row_has_repeat_icon_pixel(row, ocr_repeat_ys),
                            confidence |-> <<SumConfidence(row), Len(row)>>])]

\* One iteration of parse_frame's loop over the rows; st holds current_date
\* and the reminders so far.  A confidence is the pair <<sum, count>> of the
\* mean it stands for.
ParseRow(st, row, icon_y_positions, ocr_repeat_ys) ==
    LET full_text == RowText(row)
        scan == ScanBoxes(row, 1, [time_str |-> << >>, text_parts |-> << >>])
        has_repeat == \/ _row_has_repeat_icon_pixel(row, icon_y_positions)
                      \/ _row_has_repeat_icon_pixel(row, ocr_repeat_ys)
        reminder_text == Strip(JoinSpace(scan.text_parts))
        avg_conf == <<SumConfidence(row), Len(row)>>
        normalized_time == _normalize_time(scan.time_str)
    IN  IF _is_date_header(full_text)
        THEN [st EXCEPT !.current_date = RemoveTomorrowPrefix(Strip(full_text))]
        ELSE IF scan.time_str = << >>
        THEN IF st.reminders # << >>
             THEN [st EXCEPT !.reminders[Len(st.reminders)].text = @ \o <<"\n">> \o full_text]
             ELSE st
        ELSE IF normalized_time # << >>
        THEN [st EXCEPT !.reminders =
                 Append(@, [date |-> st.current_date, time |-> normalized_time,
                            text |-> reminder_text, repeats |-> has_repeat,
                            confidence |-> avg_conf])]
        ELSE st

RECURSIVE ParseRows(_, _, _, _)
ParseRows(st, rows, icon_y_positions, ocr_repeat_ys) ==
    IF rows = << >> THEN st
    ELSE ParseRows(ParseRow(st, Head(rows), icon_y_positions, ocr_repeat_ys),
                   Tail(rows), icon_y_positions, ocr_repeat_ys)

\* the boxes parse_frame groups into rows: the content boxes that are not
\* repeat-icon readings
RealBoxes(boxes, frame_width, frame_height) ==
    SelectSeq(_filter_content_boxes(boxes, frame_height),
              LAMBDA b : ~_is_repeat_icon_ocr(b, frame_width))

\* [int(y) for y in ocr_repeat_ys]
OcrRepeatYs(boxes, frame_width, frame_height) ==
    LET icons == SelectSeq(_filter_content_boxes(boxes, frame_height),
                           LAMBDA b : _is_repeat_icon_ocr(b, frame_width))
    IN  [k \in 1..Len(icons) |-> YCenter2(icons[k]) \div 2]

\* Parse OCR boxes from a single frame into structured Reminder objects.
\* icon_y_positions is what _detect_repeat_icons_pixel finds in the image.
parse_frame(boxes, icon_y_positions, frame_width, frame_height) ==
    IF _filter_content_boxes(boxes, frame_height) = << >> THEN << >>
    ELSE ParseRows([current_date |-> << >>, reminders |-> << >>],
                   _group_into_rows(RealBoxes(boxes, frame_width, frame_height)),
                   icon_y_positions,
                   OcrRepeatYs(boxes, frame_width, frame_height)).reminders

\* A variant of ParseOneFrame, for testing what the properties detect: no
\* default date is assigned.
ParseOneFrameNoDefault(boxes, image) ==
    IF ~image.readable THEN << >>
    ELSE parse_frame(boxes, image.icon_y_positions, image.width, image.height)

\* One iteration of parse_all_frames: an image that cannot be read gives no
\* reminders; a reminder with no date header gets the default date.
ParseOneFrame(boxes, image) ==
    IF ~image.readable THEN << >>
    ELSE LET reminders == parse_frame(boxes, image.icon_y_positions, image.width, image.height)
         IN  [k \in 1..Len(reminders) |->
                IF reminders[k].date = << >>
                THEN [reminders[k] EXCEPT !.date = Chars(DEFAULT_INITIAL_DATE)]
                ELSE reminders[k]]

\* Parse all frames. Returns per-frame lists of reminders.
parse_all_frames(all_boxes, images) ==
    [i \in 1..Len(all_boxes) |-> ParseOneFrame(all_boxes[i], images[i])]

(***************************************************************************)
(* output.py: the CSV writer                                               *)
(***************************************************************************)

\* The video was recorded in 2026
YEAR == 2026

\* Month name/abbreviation to number
MONTH_MAP ==
    { <<<<"j","a","n">>, 1>>,
      <<<<"f","e","b">>, 2>>,
      <<<<"m","a","r">>, 3>>,
      <<<<"a","p","r">>, 4>>,
      <<<<"m","a","y">>, 5>>,
      <<<<"j","u","n">>, 6>>,
      <<<<"j","u","l">>, 7>>,
      <<<<"a","u","g">>, 8>>,
      <<<<"s","e","p">>, 9>>,
      <<<<"s","e","p","t">>, 9>>,
      <<<<"o","c","t">>, 10>>,
      <<<<"n","o","v">>, 11>>,
      <<<<"d","e","c">>, 12>>,
      <<<<"j","a","n","u","a","r","y">>, 1>>,
      <<<<"f","e","b","r","u","a","r","y">>, 2>>,
      <<<<"m","a","r","c","h">>, 3>>,
      <<<<"a","p","r","i","l">>, 4>>,
      <<<<"j","u","n","e">>, 6>>,
      <<<<"j","u","l","y">>, 7>>,
      <<<<"a","u","g","u","s","t">>, 8>>,
      <<<<"s","e","p","t","e","m","b","e","r">>, 9>>,
      <<<<"o","c","t","o","b","e","r">>, 10>>,
      <<<<"n","o","v","e","m","b","e","r">>, 11>>,
      <<<<"d","e","c","e","m","b","e","r">>, 12>> }
\* (\d{1,2})\s+(\w+) at position i of cs, with d day digits
DateTokenAt(cs, i, d) ==
    /\ i + d - 1 <= Len(cs)
    /\ \A k \in i..(i + d - 1) : IsDigit(cs[k])
    /\ SpaceRun(cs, i + d) >= 1
    /\ WordRun(cs, i + d + SpaceRun(cs, i + d)) >= 1

\* re.search(r"(\d{1,2})\s+(\w+)", date_str): the match that starts leftmost,
\* two day digits tried before one, the month taking the whole run of \w;
\* <<day, month_name>> or << >> for None
DateTokenSearch(cs) ==
    LET starts == {i \in 1..Len(cs) : DateTokenAt(cs, i, 2) \/ DateTokenAt(cs, i, 1)}
    IN  IF starts = {} THEN << >>
        ELSE LET i == CHOOSE m \in starts : \A n \in starts : m <= n
                 d == IF DateTokenAt(cs, i, 2) THEN 2 ELSE 1
                 q == i + d + SpaceRun(cs, i + d)
             IN  <<SubSeq(cs, i, i + d - 1), SubSeq(cs, q, q + WordRun(cs, q) - 1)>>

\* Convert date like 'Thursday 13 Feb' to '2026-02-13'; "" if it cannot
_parse_date(date_str) ==
    LET m == DateTokenSearch(date_str)
    IN  IF m = << >> THEN << >>
        ELSE LET month_name == LowerSeq(m[2])
                 known == {e \in MONTH_MAP : e[1] = month_name}
             IN  IF known = {} THEN << >>
                 ELSE Decimal(YEAR) \o <<"-">> \o ZeroPad2((CHOOSE e \in known : TRUE)[2])
                        \o <<"-">> \o ZeroPad2(IntOf(m[1]))

\* str.replace("\n", "\\n"): a line break becomes a backslash and an n
RECURSIVE EscapeNewlines(_)
EscapeNewlines(cs) ==
    IF cs = << >> THEN << >>
    ELSE (IF Head(cs) = "\n" THEN <<"\\", "n">> ELSE <<Head(cs)>>) \o EscapeNewlines(Tail(cs))

\* the line write_csv writes for a reminder whose date it can parse
CsvLine(r) ==
    EscapeNewlines(Chars(r.text)) \o <<"~">> \o _parse_date(Chars(r.date)) \o <<" ">>
      \o Chars(r.time) \o <<"~">> \o (IF r.repeats THEN <<"Y">> ELSE << >>)

\* A variant of WriteCsvRow, for testing what the properties detect: a
\* reminder whose date cannot be parsed is written too.
WriteCsvRowKeepsAll(csv, r) == Append(csv, CsvLine(r))

\* One iteration of write_csv's loop: a reminder whose date cannot be parsed
\* is skipped
WriteCsvRow(csv, r) ==
    IF _parse_date(Chars(r.date)) = << >> THEN csv ELSE Append(csv, CsvLine(r))

RECURSIVE WriteCsvRows(_, _)
WriteCsvRows(csv, rs) ==
    IF rs = << >> THEN csv ELSE WriteCsvRows(WriteCsvRow(csv, Head(rs)), Tail(rs))

CsvHeader == Chars("title~datetime~recurrence")

\* Write reminders to CSV with ~ delimiter: the lines of the file
write_csv(rs) == WriteCsvRows(<<CsvHeader>>, rs)

(***************************************************************************)
(* The state machines: deduplicate, extract_frames, and the pipeline of    *)
(* extract.py with its stages                                              *)
(***************************************************************************)

\* Bounds of the model
MaxReminders == 3
MaxFrames == 2
MaxVideoFrames == 7
MaxWindow == 3
MaxSkip == 2

Reminder(d, t, x, r, c) == [date |-> d, time |-> t, text |-> x, repeats |-> r, confidence |-> c]

\* The reminders a run of deduplicate draws its input from: each run takes
\* one bounded slice of the space of reminders.
Domains == {"texts", "labels", "order", "repeats"}

\* Slices with misread texts: three readings of one word of which the third
\* resembles both others, which do not resemble each other; and three texts
\* of which the shortest is contained in both others.
MergeDomains == {"chain", "contain"}

Observations(dom) ==
    CASE dom = "texts" ->
           {Reminder("Thursday 13 Feb", "09:05", x, FALSE, c) :
              x \in {"Dentist", "Dentist appoint", "Dentist appointment"},
              c \in {60, 85, 90}}
           \cup {Reminder("Thursday 13 Feb", "09:05", "Call mom", FALSE, 90)}
      [] dom = "labels" ->
           {Reminder(d, "09:05", "Dentist appointment", FALSE, 60) : d \in Labels}
           \cup {Reminder("Thursday 13 Feb", "09:05", "Dentist appointment", FALSE, 90)}
      [] dom = "order" ->
           {Reminder(d, t, "Dentist appointment", FALSE, c) :
              d \in {"Thursday 13 Feb", "Thu 13 Feb"}, t \in {"09:05", "13:19"}, c \in {60, 90}}
           \cup {Reminder("Fri 14 Feb", "10:30", "Dentist appointment", FALSE, 60)}
      [] dom = "repeats" ->
           {Reminder("Thursday 13 Feb", "09:05", "Dentist appointment", r, c) :
              r \in BOOLEAN, c \in {60, 90}}
           \cup {Reminder("Thursday 13 Feb", "09:05", x, r, 90) :
                   x \in {"", "Dentist"}, r \in BOOLEAN}
      [] dom = "chain" ->
           {Reminder("Thursday 13 Feb", "09:05", x, FALSE, c) :
              x \in {"Dentist", "Oentlst", "Dentlst"}, c \in {60, 90}}
      [] dom = "contain" ->
           {Reminder("Thursday 13 Feb", "09:05", x, FALSE, c) :
              x \in {"Dentist appointment", "Dentist today", "Dentist"},
              c \in {60, 90}}

\* Bounds of the layout parser's model
MaxBoxes == 3
MaxOcrFrames == 2

\* The boxes a run of the parser draws the oracle's detections from: each
\* run takes one bounded slice of the space of boxes.
ParserSlices == {"rows", "dates", "icons"}
LayoutSlices == {"layout", "edge"}

Detections(s) ==
    CASE s = "rows" ->
           { OCRBox("9:05", 90, 50, 300, 320),
             OCRBox("Dentist", 60, 200, 300, 320),
             OCRBox("today", 85, 200, 300, 320),
             OCRBox("appointment", 85, 200, 330, 350),
             OCRBox("see notes", 90, 50, 400, 420) }
      [] s = "dates" ->
           { OCRBox("Thursday 13 Feb", 90, 50, 200, 220),
             OCRBox("9:05", 90, 50, 300, 320),
             OCRBox("Tomorrow Sat 14 Feb", 90, 50, 500, 520),
             OCRBox("13.19 Call mom", 85, 50, 600, 620),
             OCRBox("tomorrow Sat 14 Feb", 60, 50, 700, 720) }
      [] s = "icons" ->
           { OCRBox("9:05", 90, 50, 300, 320),
             OCRBox("Dentist", 60, 200, 300, 320),
             OCRBox("C", 50, 900, 300, 320),
             OCRBox("C", 20, 900, 600, 620),
             OCRBox("13.19 Call mom", 85, 50, 600, 620),
             OCRBox("Reminders", 90, 50, 40, 60) }
      [] s = "layout" ->
           { OCRBox("today", 85, 10, 300, 320),
             OCRBox("9:05 Dentist", 60, 50, 300, 320),
             OCRBox("appointment", 85, 200, 300, 320),
             OCRBox("see notes", 90, 50, 330, 350) }
      [] s = "edge" ->
           { OCRBox("9:05 Dentist", 60, 50, 350, 370),
             OCRBox("C", 50, 900, 300, 321),
             OCRBox("C", 50, 900, 300, 319),
             OCRBox("today", 85, 200, 350, 370) }
      [] s = "pipeline" ->
           { OCRBox("Fri 14 Feb", 90, 50, 200, 220),
             OCRBox("9:05 Dentist", 60, 50, 300, 320),
             OCRBox("13:19 Call mom", 90, 50, 400, 420),
             OCRBox("9.05 Dentist appointment", 90, 50, 500, 520) }

\* The frame image at a path, as parse_all_frames sees it: whether
\* cv2.imread can read it, its size, and the icon positions the pixel scan
\* finds in it.
Image(readable, icon_y_positions) ==
    [readable |-> readable, icon_y_positions |-> icon_y_positions,
     width |-> 1000, height |-> 1000]

Images(s) ==
    CASE s = "rows" -> {Image(TRUE, << >>)}
      [] s = "dates" -> {Image(TRUE, << >>), Image(FALSE, << >>)}
      [] s = "icons" -> {Image(TRUE, << >>), Image(TRUE, <<610>>)}
      [] s = "layout" -> {Image(TRUE, << >>)}
      [] s = "edge" -> {Image(TRUE, << >>), Image(TRUE, <<409>>)}
      [] s = "pipeline" -> {Image(TRUE, << >>), Image(FALSE, << >>)}

VARIABLES
    domain,               \* the slice this run draws its reminders from
    per_frame_reminders,  \* the input consumed so far, frame by frame
    merged,               \* deduplicate's merged list
    dpc,                  \* "merging" | "done"
    result,               \* the list deduplicate returned
    stability_window,     \* config.STABILITY_WINDOW
    stability_skip_frames,\* config.STABILITY_SKIP_FRAMES
    diffs,                \* for each frame read after the first: diff < threshold
    frame_idx,
    prev_cropped,         \* whether a previous frame is held
    stable_count,
    stable_start_idx,
    captured,
    saved_frames,
    frame_buffer,
    spc,                  \* "scan" | "done" | "crashed"
    slice,                \* the slice this run draws the oracle's detections from
    frame_paths,          \* the number of frames extract_frames returned
    dry_run,              \* args.dry_run
    reader_created,       \* whether create_reader has been called
    all_ocr_results,      \* per frame, the boxes process_frame returned
    images,               \* per frame, the image parse_all_frames read
    all_reminders,        \* per frame, the reminders parse_all_frames returned
    reminders,            \* the list deduplicate returned to main
    mpc,                  \* main's position
    csv_input,            \* the reminders write_csv has gone through
    lines,                \* the lines of reminders.csv
    csv_written           \* whether reminders.csv has been written

dvars == <<domain, per_frame_reminders, merged, dpc, result>>
svars == <<stability_window, stability_skip_frames, diffs, frame_idx, prev_cropped,
           stable_count, stable_start_idx, captured, saved_frames, frame_buffer, spc>>
pvars == <<slice, frame_paths, dry_run, reader_created, all_ocr_results, images,
           all_reminders, reminders, mpc>>
ovars == <<csv_input, lines, csv_written>>
vars == <<dvars, svars, pvars, ovars>>

Consumed == Flatten(per_frame_reminders)

DedupInit ==
    /\ per_frame_reminders = << >>
    /\ merged = << >>
    /\ dpc = "merging"
    /\ result = << >>

\* the outer loop reaches the next frame
NextFrame ==
    /\ dpc = "merging"
    /\ Len(per_frame_reminders) < MaxFrames
    /\ per_frame_reminders' = Append(per_frame_reminders, << >>)
    /\ UNCHANGED <<domain, merged, dpc, result, svars, pvars, ovars>>

\* the inner loop takes the next reminder of the current frame
ProcessReminder(reminder) ==
    /\ dpc = "merging"
    /\ per_frame_reminders # << >>
    /\ Len(Consumed) < MaxReminders
    /\ per_frame_reminders' =
          [per_frame_reminders EXCEPT ![Len(per_frame_reminders)] = Append(@, reminder)]
    /\ merged' = MergeOne(merged, reminder)
    /\ UNCHANGED <<domain, dpc, result, svars, pvars, ovars>>

\* the input has ended: sort and return
Finish ==
    /\ dpc = "merging"
    /\ dpc' = "done"
    /\ result' = SortMerged(merged)
    /\ UNCHANGED <<domain, per_frame_reminders, merged, svars, pvars, ovars>>

StabilityInit ==
    /\ diffs = << >>
    /\ frame_idx = 0
    /\ prev_cropped = FALSE
    /\ stable_count = 0
    /\ stable_start_idx = 0
    /\ captured = FALSE
    /\ saved_frames = << >>
    /\ frame_buffer = << >>
    /\ spc = "scan"

\* the first frame read: there is no previous frame to compare with
ReadFirstFrame ==
    /\ spc = "scan"
    /\ ~prev_cropped
    /\ frame_idx < MaxVideoFrames
    /\ frame_buffer' = Append(frame_buffer, frame_idx)
    /\ prev_cropped' = TRUE
    /\ frame_idx' = frame_idx + 1
    /\ UNCHANGED <<stability_window, stability_skip_frames, diffs, stable_count,
                   stable_start_idx, captured, saved_frames, spc, dvars, pvars, ovars>>

\* a later frame that differs from the previous one by less than the threshold
ReadStableFrame ==
    /\ spc = "scan"
    /\ prev_cropped
    /\ frame_idx < MaxVideoFrames
    /\ diffs' = Append(diffs, TRUE)
    /\ stable_start_idx' = IF stable_count = 0 THEN frame_idx - 1 ELSE stable_start_idx
    /\ frame_buffer' = Append(IF stable_count = 0 THEN << >> ELSE frame_buffer, frame_idx)
    /\ stable_count' = stable_count + 1
    /\ frame_idx' = frame_idx + 1
    /\ UNCHANGED <<stability_window, stability_skip_frames, prev_cropped, captured,
                   saved_frames, spc, dvars, pvars, ovars>>

\* a later frame that differs by the threshold or more: the stable period, if
\* any, has ended
ReadUnstableFrame ==
    /\ spc = "scan"
    /\ prev_cropped
    /\ frame_idx < MaxVideoFrames
    /\ diffs' = Append(diffs, FALSE)
    /\ IF stable_count >= stability_window /\ ~captured
       THEN IF CaptureFails(frame_buffer, stability_skip_frames)
            THEN /\ spc' = "crashed"
                 /\ UNCHANGED <<saved_frames, stable_count, captured, frame_buffer, frame_idx>>
            ELSE /\ saved_frames' =
                      Append(saved_frames,
                             Saved(_capture_from_stable(frame_buffer, Len(saved_frames),
                                                        stability_skip_frames),
                                   stable_start_idx, frame_idx - 1, stable_count))
                 /\ stable_count' = 0
                 /\ captured' = FALSE
                 /\ frame_buffer' = << >>
                 /\ frame_idx' = frame_idx + 1
                 /\ UNCHANGED spc
       ELSE /\ stable_count' = 0
            /\ captured' = FALSE
            /\ frame_buffer' = << >>
            /\ frame_idx' = frame_idx + 1
            /\ UNCHANGED <<saved_frames, spc>>
    /\ UNCHANGED <<stability_window, stability_skip_frames, prev_cropped,
                   stable_start_idx, dvars, pvars, ovars>>

\* cap.read() fails: the final stable period is handled and the list returned
EndOfStream ==
    /\ spc = "scan"
    /\ IF stable_count >= stability_window /\ ~captured
       THEN IF CaptureFails(frame_buffer, stability_skip_frames)
            THEN /\ spc' = "crashed"
                 /\ UNCHANGED saved_frames
            ELSE /\ saved_frames' =
                      Append(saved_frames,
                             Saved(_capture_from_stable(frame_buffer, Len(saved_frames),
                                                        stability_skip_frames),
                                   stable_start_idx, frame_idx - 1, stable_count))
                 /\ spc' = "done"
       ELSE /\ spc' = "done"
            /\ UNCHANGED saved_frames
    /\ UNCHANGED <<stability_window, stability_skip_frames, diffs, frame_idx, prev_cropped,
                   stable_count, stable_start_idx, captured, frame_buffer, dvars, pvars, ovars>>

\* nothing has been read, parsed or written yet
PipelineInit ==
    /\ all_ocr_results = << >>
    /\ images = << >>
    /\ all_reminders = << >>
    /\ reminders = << >>

OutputInit ==
    /\ csv_input = << >>
    /\ lines = << >>
    /\ csv_written = FALSE

\* main has not started
PipelineIdle ==
    /\ slice = "rows"
    /\ mpc = "start"
    /\ frame_paths = 0
    /\ dry_run = FALSE
    /\ reader_created = FALSE
    /\ PipelineInit
    /\ OutputInit

\* The deduplicator, on every input within the bounds
Init ==
    /\ domain \in Domains
    /\ DedupInit
    /\ stability_window = 0
    /\ stability_skip_frames = 0
    /\ StabilityInit
    /\ PipelineIdle

Next ==
    \/ NextFrame
    \/ \E reminder \in Observations(domain) : ProcessReminder(reminder)
    \/ Finish

Spec == Init /\ [][Next]_vars

\* The deduplicator, on the slices with misread texts
MergeSpecInit ==
    /\ domain \in MergeDomains
    /\ DedupInit
    /\ stability_window = 0
    /\ stability_skip_frames = 0
    /\ StabilityInit
    /\ PipelineIdle

MergeSpec == MergeSpecInit /\ [][Next]_vars

\* The deduplicator, on the slice with recurrence flags
FlagSpecInit ==
    /\ domain = "repeats"
    /\ DedupInit
    /\ stability_window = 0
    /\ stability_skip_frames = 0
    /\ StabilityInit
    /\ PipelineIdle

FlagSpec == FlagSpecInit /\ [][Next]_vars

\* The stability detector, on every video and every setting of the two
\* tunables within the bounds
StabilitySpecInit ==
    /\ domain = "texts"
    /\ DedupInit
    /\ stability_window \in 0..MaxWindow
    /\ stability_skip_frames \in 0..MaxSkip
    /\ StabilityInit
    /\ PipelineIdle

StabilityNext ==
    \/ ReadFirstFrame
    \/ ReadStableFrame
    \/ ReadUnstableFrame
    \/ EndOfStream

StabilitySpec == StabilitySpecInit /\ [][StabilityNext]_vars

\* the detections processed so far, over all frames
Detected == Concat(all_ocr_results)

\* process_all_frames reaches the next frame path: process_frame starts with
\* an empty list of boxes
ProcessFrame ==
    /\ mpc = "ocr"
    /\ Len(all_ocr_results) < frame_paths
    /\ all_ocr_results' = Append(all_ocr_results, << >>)
    /\ UNCHANGED <<slice, frame_paths, dry_run, reader_created, images, all_reminders,
                   reminders, mpc, ovars, dvars, svars>>

\* process_frame takes the next detection of the oracle's result: it is kept
\* unless its confidence is below the threshold
OcrResult(box) ==
    /\ mpc = "ocr"
    /\ all_ocr_results # << >>
    /\ Len(Detected) < MaxBoxes
    /\ all_ocr_results' =
          IF box.confidence < OCR_CONFIDENCE_THRESHOLD THEN all_ocr_results
          ELSE [all_ocr_results EXCEPT ![Len(all_ocr_results)] = Append(@, box)]
    /\ UNCHANGED <<slice, frame_paths, dry_run, reader_created, images, all_reminders,
                   reminders, mpc, ovars, dvars, svars>>

\* process_all_frames has returned: parse_all_frames parses every frame
ParseAllFrames(imgs) ==
    /\ mpc = "ocr"
    /\ Len(all_ocr_results) = frame_paths
    /\ images' = imgs
    /\ all_reminders' = parse_all_frames(all_ocr_results, imgs)
    /\ mpc' = "dedup"
    /\ UNCHANGED <<slice, frame_paths, dry_run, reader_created, all_ocr_results,
                   reminders, ovars, dvars, svars>>

\* The layout parser, on every list of detections and every image within the
\* bounds: steps 2 and 3 of the pipeline
ParserSpecInit ==
    /\ domain = "texts"
    /\ DedupInit
    /\ stability_window = 0
    /\ stability_skip_frames = 0
    /\ StabilityInit
    /\ slice \in ParserSlices
    /\ PipelineInit
    /\ frame_paths \in 1..MaxOcrFrames
    /\ dry_run = FALSE
    /\ reader_created = TRUE
    /\ mpc = "ocr"
    /\ OutputInit

ParserNext ==
    \/ ProcessFrame
    \/ \E box \in Detections(slice) : OcrResult(box)
    \/ \E imgs \in [1..Len(all_ocr_results) -> Images(slice)] : ParseAllFrames(imgs)

ParserSpec == ParserSpecInit /\ [][ParserNext]_vars

\* The layout parser on the slices with boxes left of the time, wrapped
\* second lines and icon readings at the edge of the tolerance
LayoutSpecInit ==
    /\ domain = "texts"
    /\ DedupInit
    /\ stability_window = 0
    /\ stability_skip_frames = 0
    /\ StabilityInit
    /\ slice \in LayoutSlices
    /\ PipelineInit
    /\ frame_paths \in 1..MaxOcrFrames
    /\ dry_run = FALSE
    /\ reader_created = TRUE
    /\ mpc = "ocr"
    /\ OutputInit

LayoutSpec == LayoutSpecInit /\ [][ParserNext]_vars

(***************************************************************************)
(* extract.py: main.  The stages run in sequence; an uncaught exception    *)
(* ends the run ("crashed"), sys.exit ends it with a status.               *)
(***************************************************************************)

\* The hand-over from the parser to the deduplicator: a text the parser built
\* is the string with these characters, a mean confidence is its value.  The
\* run is followed into deduplication when the parsed reminders lie within
\* the strings and confidences of the deduplicator's model.
Strings == Labels \cup Times \cup Texts

HasString(cs) == \E s \in Strings : Chars(s) = cs
StringOf(cs) == CHOOSE s \in Strings : Chars(s) = cs

HasMean(conf) == \E c \in 0..100 : c * conf[2] = conf[1]
MeanOf(conf) == CHOOSE c \in 0..100 : c * conf[2] = conf[1]

WithinDedupModel(frames) ==
    \A f \in 1..Len(frames) : \A k \in 1..Len(frames[f]) :
        /\ HasString(frames[f][k].date)
        /\ HasString(frames[f][k].time)
        /\ HasString(frames[f][k].text)
        /\ HasMean(frames[f][k].confidence)

AsObserved(frames) ==
    [f \in 1..Len(frames) |->
        [k \in 1..Len(frames[f]) |->
            Reminder(StringOf(frames[f][k].date), StringOf(frames[f][k].time),
                     StringOf(frames[f][k].text), frames[f][k].repeats,
                     MeanOf(frames[f][k].confidence))]]

\* the video file is not there: "Video file not found", sys.exit(1)
VideoNotFound ==
    /\ mpc = "start"
    /\ mpc' = "video_not_found"
    /\ UNCHANGED <<slice, frame_paths, dry_run, reader_created, all_ocr_results, images,
                   all_reminders, reminders, ovars, dvars, svars>>

\* A variant of ExtractFrames, for testing what the properties detect: the
\* run goes on when no frame was extracted.
ExtractFramesNoCheck(n) ==
    /\ mpc = "start"
    /\ frame_paths' = n
    /\ mpc' = IF dry_run THEN "dry_run_complete" ELSE "reader"
    /\ UNCHANGED <<slice, dry_run, reader_created, all_ocr_results, images,
                   all_reminders, reminders, ovars, dvars, svars>>

\* Step 1: extract_frames returns n frame paths; with none the run reports
\* "No stable frames found" and ends with sys.exit(1), with --dry-run it
\* ends here with sys.exit(0)
ExtractFrames(n) ==
    /\ mpc = "start"
    /\ frame_paths' = n
    /\ mpc' = IF n = 0 THEN "no_stable_frames"
              ELSE IF dry_run THEN "dry_run_complete" ELSE "reader"
    /\ UNCHANGED <<slice, dry_run, reader_created, all_ocr_results, images,
                   all_reminders, reminders, ovars, dvars, svars>>

\* Step 2 begins: create_reader
CreateReader ==
    /\ mpc = "reader"
    /\ reader_created' = TRUE
    /\ mpc' = "ocr"
    /\ UNCHANGED <<slice, frame_paths, dry_run, all_ocr_results, images,
                   all_reminders, reminders, ovars, dvars, svars>>

\* reader.readtext raises on the next frame: nothing catches the exception
OracleRaises ==
    /\ mpc = "ocr"
    /\ Len(all_ocr_results) < frame_paths
    /\ mpc' = "crashed"
    /\ UNCHANGED <<slice, frame_paths, dry_run, reader_created, all_ocr_results, images,
                   all_reminders, reminders, ovars, dvars, svars>>

\* Step 4: deduplicate
Deduplicate ==
    /\ mpc = "dedup"
    /\ WithinDedupModel(all_reminders)
    /\ reminders' = deduplicate(AsObserved(all_reminders))
    /\ mpc' = "output"
    /\ UNCHANGED <<slice, frame_paths, dry_run, reader_created, all_ocr_results, images,
                   all_reminders, ovars, dvars, svars>>

\* Step 5: write_csv
WriteCsv ==
    /\ mpc = "output"
    /\ csv_input' = reminders
    /\ lines' = write_csv(reminders)
    /\ csv_written' = TRUE
    /\ mpc' = "done"
    /\ UNCHANGED <<slice, frame_paths, dry_run, reader_created, all_ocr_results, images,
                   all_reminders, reminders, dvars, svars>>

\* The pipeline, on every outcome of the frame extraction and of the oracle
\* within the bounds
PipelineSpecInit ==
    /\ domain = "texts"
    /\ DedupInit
    /\ stability_window = 0
    /\ stability_skip_frames = 0
    /\ StabilityInit
    /\ slice = "pipeline"
    /\ mpc = "start"
    /\ frame_paths = 0
    /\ dry_run \in BOOLEAN
    /\ reader_created = FALSE
    /\ PipelineInit
    /\ OutputInit

PipelineNext ==
    \/ VideoNotFound
    \/ \E n \in 0..MaxOcrFrames : ExtractFrames(n)
    \/ CreateReader
    \/ ProcessFrame
    \/ \E box \in Detections(slice) : OcrResult(box)
    \/ OracleRaises
    \/ \E imgs \in [1..Len(all_ocr_results) -> Images(slice)] : ParseAllFrames(imgs)
    \/ Deduplicate
    \/ WriteCsv

PipelineSpec == PipelineSpecInit /\ [][PipelineNext]_vars

\* write_csv on its own, on every list of reminders within the bounds
MaxCsvReminders == 3

CsvReminders ==
    { Reminder("Thursday 13 Feb", "09:05", "Dentist", FALSE, 90),
      Reminder("Tomorrow", "09:05", "Dentist", FALSE, 90),
      Reminder("Thu 13 Fcb", "13:19", "Call mom", TRUE, 90),
      Reminder("Fri 14 Feb", "13:19", "Call mom\nsee notes", TRUE, 85) }

\* write_csv starts: the header line
StartCsv ==
    /\ mpc = "output"
    /\ lines = << >>
    /\ lines' = <<CsvHeader>>
    /\ UNCHANGED <<csv_input, csv_written, pvars, dvars, svars>>

\* write_csv's loop takes the next reminder
WriteReminder(r) ==
    /\ mpc = "output"
    /\ lines # << >>
    /\ ~csv_written
    /\ Len(csv_input) < MaxCsvReminders
    /\ csv_input' = Append(csv_input, r)
    /\ lines' = WriteCsvRow(lines, r)
    /\ UNCHANGED <<csv_written, pvars, dvars, svars>>

\* the list has ended: the file is written
CloseCsv ==
    /\ mpc = "output"
    /\ lines # << >>
    /\ ~csv_written
    /\ csv_written' = TRUE
    /\ UNCHANGED <<csv_input, lines, pvars, dvars, svars>>

OutputSpecInit ==
    /\ domain = "texts"
    /\ DedupInit
    /\ stability_window = 0
    /\ stability_skip_frames = 0
    /\ StabilityInit
    /\ slice = "pipeline"
    /\ mpc = "output"
    /\ frame_paths = 0
    /\ dry_run = FALSE
    /\ reader_created = FALSE
    /\ PipelineInit
    /\ OutputInit

OutputNext ==
    \/ StartCsv
    \/ \E r \in CsvReminders : WriteReminder(r)
    \/ CloseCsv

OutputSpec == OutputSpecInit /\ [][OutputNext]_vars

(***************************************************************************)
(* Properties                                                              *)
(***************************************************************************)

NonEmpty(r) == r.text # ""

\* the first observation with the highest confidence
Best(obs) ==
    LET i == CHOOSE m \in 1..Len(obs) :
                /\ \A n \in 1..Len(obs) : obs[n].confidence <= obs[m].confidence
                /\ \A n \in 1..(m - 1) : obs[n].confidence < obs[m].confidence
    IN  obs[i]

\* the input was exactly two frames of one reminder each
TwoSingletonFrames ==
    /\ Len(per_frame_reminders) = 2
    /\ Len(per_frame_reminders[1]) = 1
    /\ Len(per_frame_reminders[2]) = 1

SameDateAndTime(a, b) ==
    /\ DateMatchesTable[a.date][b.date]
    /\ DateMatchesTable[b.date][a.date]
    /\ a.time = b.time

IdentityBothWays(a, b) == _reminders_match(a, b) /\ _reminders_match(b, a)

EitherRuleBothWays(a, b) ==
    /\ _reminders_match(a, b) \/ _is_substring_match(a, b)
    /\ _reminders_match(b, a) \/ _is_substring_match(b, a)

\* deduplicate([[A],[B]]) (the run) and deduplicate([[B],[A]]) both return one
\* entry with the text of the more confident of A and B
OneEntryWithBestTextBothOrders(a, b) ==
    LET swapped == deduplicate(<<<<b>>, <<a>>>>)
        best == IF a.confidence > b.confidence THEN a ELSE b
    IN  /\ Len(result) = 1
        /\ Len(swapped) = 1
        /\ result[1].text = swapped[1].text
        /\ result[1].text = best.text

\* C1, as claimed: for two observations A, B of one reminder (same date and
\* time, different confidences) that match under either rule, identity or
\* substring, deduplicate([[A],[B]]) and deduplicate([[B],[A]]) each return
\* exactly one entry, with the same text, that of the more confident one.
C1_OrderIndependentEitherRule ==
    (dpc = "done" /\ TwoSingletonFrames) =>
        LET a == per_frame_reminders[1][1]
            b == per_frame_reminders[2][1]
        IN  (/\ NonEmpty(a) /\ NonEmpty(b)
             /\ SameDateAndTime(a, b)
             /\ a.confidence # b.confidence
             /\ EitherRuleBothWays(a, b))
            => OneEntryWithBestTextBothOrders(a, b)

\* C1, amended: the same for two observations that match each other under
\* the identity rule (in both argument orders).
C1_OrderIndependentIdentity ==
    (dpc = "done" /\ TwoSingletonFrames) =>
        LET a == per_frame_reminders[1][1]
            b == per_frame_reminders[2][1]
        IN  (/\ NonEmpty(a) /\ NonEmpty(b)
             /\ SameDateAndTime(a, b)
             /\ a.confidence # b.confidence
             /\ IdentityBothWays(a, b))
            => OneEntryWithBestTextBothOrders(a, b)

\* a less confident longer text, then a more confident shorter text that
\* identity-matches it: the stored text was replaced
C1_Witness ==
    /\ dpc = "done"
    /\ TwoSingletonFrames
    /\ LET a == per_frame_reminders[1][1]
           b == per_frame_reminders[2][1]
       IN  /\ IdentityBothWays(a, b)
           /\ a.text # b.text
           /\ a.confidence < b.confidence
           /\ result = <<b>>

\* every two of the observations satisfy the identity rule
PairwiseIdentity(obs) ==
    \A i, j \in 1..Len(obs) : i # j => _reminders_match(obs[i], obs[j])

\* C2: observations of one reminder, over any number of frames, whose texts
\* pairwise satisfy the identity rule are returned as exactly one entry, with
\* the text and confidence of the most confident observation, the earliest
\* one on a tie.
C2_BestObservationWins ==
    (/\ dpc = "done"
     /\ Consumed # << >>
     /\ \A i \in 1..Len(Consumed) : NonEmpty(Consumed[i])
     /\ PairwiseIdentity(Consumed))
    => /\ Len(result) = 1
       /\ result[1].text = Best(Consumed).text
       /\ result[1].confidence = Best(Consumed).confidence

\* 'Dentist appoint'/0.6, 'Dentist appointment'/0.9, 'Dentist appointment'/0.85
C2_Witness ==
    /\ dpc = "done"
    /\ Len(per_frame_reminders) = 2
    /\ Len(Consumed) = 3
    /\ Consumed[1].text = "Dentist appoint" /\ Consumed[1].confidence = 60
    /\ Consumed[2].text = "Dentist appointment" /\ Consumed[2].confidence = 90
    /\ Consumed[3].text = "Dentist appointment" /\ Consumed[3].confidence = 85
    /\ Len(result) = 1
    /\ result[1].text = "Dentist appointment"
    /\ result[1].confidence = 90

\* A step of deduplicate that takes one reminder, and that reminder
TakesReminder == dpc = "merging" /\ Len(Consumed') = Len(Consumed) + 1
Incoming == Consumed[Len(Consumed)]

\* C3, as claimed: when the scan stops at a stored entry on the identity rule,
\* a strictly more confident incoming reminder gives the entry its text and
\* confidence, an equally or less confident one leaves them; and nothing else
\* than these and the repeats flag changes: the entry keeps its date label and
\* its time, the list its length and every other entry.
C3_IdentityMergeTouchesOnlyTextConfidenceRepeats ==
    [][TakesReminder =>
        LET r == Incoming'
            i == FirstStop(merged, r)
        IN  (NonEmpty(r) /\ i > 0 /\ _reminders_match(merged[i], r)) =>
              /\ Len(merged') = Len(merged)
              /\ \A j \in 1..Len(merged) : j # i => merged'[j] = merged[j]
              /\ merged'[i].date = merged[i].date
              /\ merged'[i].time = merged[i].time
              /\ IF r.confidence > merged[i].confidence
                 THEN merged'[i].text = r.text /\ merged'[i].confidence = r.confidence
                 ELSE /\ merged'[i].text = merged[i].text
                      /\ merged'[i].confidence = merged[i].confidence]_vars

\* the condition of the substring rule under which the incoming text wins
ShorterAndConfidentEnough(existing, r) ==
    /\ StrLen(r.text) < StrLen(existing.text)
    /\ 10 * r.confidence >= 8 * existing.confidence

\* C4: when the scan stops at a stored entry that fails the identity rule and
\* passes the substring rule, the entry's text and confidence become the
\* incoming ones if the incoming text is strictly shorter and the incoming
\* confidence is at least 0.8 times the stored one, and are unchanged
\* otherwise; nothing is appended either way.
C4_SubstringMergeReplacesIffShorterAndConfident ==
    [][TakesReminder =>
        LET r == Incoming'
            i == FirstStop(merged, r)
        IN  (/\ NonEmpty(r) /\ i > 0
             /\ ~_reminders_match(merged[i], r)
             /\ _is_substring_match(merged[i], r)) =>
              /\ Len(merged') = Len(merged)
              /\ IF ShorterAndConfidentEnough(merged[i], r)
                 THEN merged'[i].text = r.text /\ merged'[i].confidence = r.confidence
                 ELSE /\ merged'[i].text = merged[i].text
                      /\ merged'[i].confidence = merged[i].confidence]_vars

\* a shorter, less confident (but confident enough) text has replaced a longer one
C4_Witness ==
    /\ Len(Consumed) = 2
    /\ Len(merged) = 1
    /\ LET a == Consumed[1]
           r == Consumed[2]
       IN  /\ ~_reminders_match(a, r)
           /\ _is_substring_match(a, r)
           /\ StrLen(r.text) < StrLen(a.text)
           /\ r.confidence < a.confidence
           /\ merged[1].text = r.text
           /\ merged[1].confidence = r.confidence

\* the day/month key of each label and the similarity of each two labels
DayMonthTable == [a \in Labels |-> DayMonthSearch(a)]
LabelSimilarityTable == [a \in Labels |-> [b \in Labels |-> _sequence_similarity(a, b)]]

HasDayMonth(label) == DayMonthTable[label] # << >>

SameDayMonth(a, b) ==
    /\ HasDayMonth(a) /\ HasDayMonth(b)
    /\ DayMonthTable[a][1] = DayMonthTable[b][1]
    /\ LowerSeq(DayMonthTable[a][2]) = LowerSeq(DayMonthTable[b][2])

SimilarLabels(a, b) ==
    RatioGeq(LabelSimilarityTable[a][b], DEDUP_SIMILARITY_THRESHOLD, 100)

\* two reminders were consumed, with non-empty similar texts and equal times:
\* they end as one entry exactly if their dates count as the same
TwoAlikeButForDate ==
    /\ Len(Consumed) = 2
    /\ NonEmpty(Consumed[1]) /\ NonEmpty(Consumed[2])
    /\ Consumed[1].time = Consumed[2].time
    /\ RatioGeq(TextSimilarityTable[Consumed[1].text][Consumed[2].text],
                DEDUP_SIMILARITY_THRESHOLD, 100)

\* C5, as claimed: each of the three date conditions alone makes two labels
\* the same date: equal verbatim, or the same day/month key, or similarity at
\* or above the threshold (also when both labels hold a day/month token).
C5_AnyDateConditionSuffices ==
    TwoAlikeButForDate =>
        LET a == Consumed[1].date
            b == Consumed[2].date
        IN  (a = b \/ SameDayMonth(a, b) \/ SimilarLabels(a, b)) => Len(merged) = 1

\* C5, amended: two labels are the same date exactly if they are equal
\* verbatim, or both hold a day/month token and the keys are equal, or not
\* both hold a token and their similarity is at or above the threshold.
C5_SimilarityOnlyWithoutTokens ==
    TwoAlikeButForDate =>
        LET a == Consumed[1].date
            b == Consumed[2].date
        IN  Len(merged) = 1 <=>
              \/ a = b
              \/ SameDayMonth(a, b)
              \/ ~(HasDayMonth(a) /\ HasDayMonth(b)) /\ SimilarLabels(a, b)

\* two labels with different day/month keys and similarity above the
\* threshold were kept apart
C5_Witness ==
    /\ TwoAlikeButForDate
    /\ HasDayMonth(Consumed[1].date) /\ HasDayMonth(Consumed[2].date)
    /\ ~SameDayMonth(Consumed[1].date, Consumed[2].date)
    /\ SimilarLabels(Consumed[1].date, Consumed[2].date)
    /\ Len(merged) = 2

\* What a label of the model says: the weekday (however written), the day
\* number and the month; << >> for a label that is no date.
LabelFields(label) ==
    CASE label = "Thursday 13 Feb" -> <<"Thursday", "13", "Feb">>
      [] label = "Thu 13 Feb" -> <<"Thursday", "13", "Feb">>
      [] label = "Thursday 18 Feb" -> <<"Thursday", "18", "Feb">>
      [] label = "Fri 14 Feb" -> <<"Friday", "14", "Feb">>
      [] OTHER -> << >>

WeekdayVariants(a, b) ==
    a # b /\ LabelFields(a) # << >> /\ LabelFields(a) = LabelFields(b)

\* C6: two reminders whose labels differ only in how the weekday is written,
\* with equal times and similar texts, are returned as one entry, whichever
\* comes first.
C6_WeekdayVariantsMerge ==
    (dpc = "done" /\ TwoAlikeButForDate
     /\ WeekdayVariants(Consumed[1].date, Consumed[2].date))
    => Len(result) = 1

C6_Witness ==
    /\ dpc = "done"
    /\ TwoAlikeButForDate
    /\ Consumed[1].date = "Thursday 13 Feb"
    /\ Consumed[2].date = "Thu 13 Feb"
    /\ Len(result) = 1

\* the number of distinct labels before the label's first entry in the list
FirstSeenRank(list, label) ==
    LET at == {i \in 1..Len(list) : list[i].date = label}
        first == CHOOSE i \in at : \A j \in at : i <= j
    IN  Cardinality({list[j].date : j \in 1..(first - 1)})

DigitValue(c) == Ord(c) - Ord("0")

\* the minutes since midnight of a time HH:MM
Minutes(t) ==
    LET cs == Chars(t)
    IN  (10 * DigitValue(cs[1]) + DigitValue(cs[2])) * 60
        + 10 * DigitValue(cs[4]) + DigitValue(cs[5])

Occurrences(list, r) == Cardinality({i \in 1..Len(list) : list[i] = r})

\* C7, as claimed: the returned list is sorted by (rank of the date label,
\* time), the rank of a label being the order in which it was first met in
\* the input, in frame order.
C7_SortedByInputDateOrder ==
    dpc = "done" =>
        \A i, j \in 1..Len(result) : i < j =>
            \/ FirstSeenRank(Consumed, result[i].date) < FirstSeenRank(Consumed, result[j].date)
            \/ /\ result[i].date = result[j].date
               /\ Minutes(result[i].time) <= Minutes(result[j].time)

\* C7, amended: the returned list holds the entries of the merged list,
\* sorted by (rank of the date label, time), the rank of a label being the
\* order in which it first occurs in the merged list as it stands when all
\* frames are merged; within a label the times are in chronological order.
C7_SortedByMergedDateOrder ==
    dpc = "done" =>
        /\ Len(result) = Len(merged)
        /\ \A i \in 1..Len(merged) : Occurrences(result, merged[i]) = Occurrences(merged, merged[i])
        /\ \A i, j \in 1..Len(result) : i < j =>
            \/ FirstSeenRank(merged, result[i].date) < FirstSeenRank(merged, result[j].date)
            \/ /\ result[i].date = result[j].date
               /\ Minutes(result[i].time) <= Minutes(result[j].time)

\* the sort moved an entry: three entries, two labels, not in merged order
C7_Witness ==
    /\ dpc = "done"
    /\ Len(result) = 3
    /\ result # merged
    /\ result[1].date = result[2].date
    /\ result[1].time # result[2].time
    /\ result[3].date # result[1].date

\* C8: a reminder with empty text is dropped before any matching: the merged
\* list is the one the non-empty reminders alone produce, and no entry of the
\* merged list or of the returned list has empty text.
C8_EmptyTextDropped ==
    /\ merged = MergeAll(<< >>, SelectSeq(Consumed, NonEmpty))
    /\ \A i \in 1..Len(merged) : merged[i].text # ""
    /\ \A i \in 1..Len(result) : result[i].text # ""

\* an empty reminder flagged as repeating came after a stored entry that is
\* still not flagged
C8_Witness ==
    /\ dpc = "done"
    /\ Len(Consumed) = 2
    /\ NonEmpty(Consumed[1])
    /\ Consumed[2].text = ""
    /\ Consumed[2].repeats
    /\ result = <<Consumed[1]>>
    /\ ~result[1].repeats

(***************************************************************************)
(* Properties of the stability detector                                    *)
(***************************************************************************)

\* the frames (after the first) that differ little from their predecessor
StableDiffs == {i \in 1..Len(diffs) : diffs[i]}

\* the video holds exactly one stable run: the small differences are
\* consecutive; the run has one frame more than it has differences
SingleStableRun ==
    /\ StableDiffs # {}
    /\ \A i, j \in StableDiffs : \A k \in i..j : diffs[k]

RunLength == Cardinality(StableDiffs) + 1

\* C9, as claimed: a video with a single stable run of L frames (L - 1
\* consecutive small differences) yields exactly one representative if
\* L >= min_run, whether the run is ended by an unstable frame or by the end
\* of the stream, and none if L < min_run.
C9_OneRepresentativeIffRunAtLeastMinRun ==
    (spc = "done" /\ stability_window >= 1 /\ SingleStableRun) =>
        IF RunLength >= stability_window
        THEN Len(saved_frames) = 1
        ELSE Len(saved_frames) = 0

\* C10, as claimed: the representative of a qualifying stable period
\* first..last whose trimmed region [first + edge_skip, last - edge_skip] is
\* not empty lies in that region.
C10_RepresentativeInTrimmedRegion ==
    \A k \in 1..Len(saved_frames) :
        LET s == saved_frames[k]
        IN  (/\ stability_window >= 1
             /\ s.duration >= stability_window
             /\ s.first + stability_skip_frames <= s.last - stability_skip_frames)
            => /\ s.first + stability_skip_frames <= s.frame
               /\ s.frame <= s.last - stability_skip_frames

\* the stable adjacent pairs that open a maximal stable period
PeriodStarts == {i \in StableDiffs : i = 1 \/ ~diffs[i - 1]}

\* the number of stable adjacent pairs of the maximal period opened at pair i
RECURSIVE PairsFrom(_)
PairsFrom(i) == IF i <= Len(diffs) /\ diffs[i] THEN 1 + PairsFrom(i + 1) ELSE 0

\* the maximal stable periods of at least min_run frames (a period of p
\* stable adjacent pairs has p + 1 frames)
QualifyingPeriods == {i \in PeriodStarts : PairsFrom(i) + 1 >= stability_window}

\* C11, as claimed: once the scan has ended, the number of representatives
\* equals the number of maximal stable periods of at least min_run frames.
C11_OneRepresentativePerQualifyingPeriod ==
    (spc = "done" /\ stability_window >= 1) =>
        Len(saved_frames) = Cardinality(QualifyingPeriods)

\* C12: the captured frames have strictly increasing source indices, and the
\* k-th capture (counting from zero) is written under sequence number k.
C12_TemporalOrderDistinctPaths ==
    /\ \A k \in 1..Len(saved_frames) : saved_frames[k].seq = k - 1
    /\ \A j, k \in 1..Len(saved_frames) :
          j < k => saved_frames[j].frame < saved_frames[k].frame

C12_Witness ==
    /\ spc = "done"
    /\ stability_window >= 1
    /\ Len(saved_frames) = 2
    /\ saved_frames[1].frame < saved_frames[2].frame
    /\ saved_frames[2].seq = 1

\* C20, as claimed: whatever the two tunables, no capture fails and the scan
\* is never aborted.
C20_NoTunableCrashes == spc # "crashed"

(***************************************************************************)
(* Properties of the layout parser                                         *)
(***************************************************************************)

\* the frames parse_all_frames has parsed
ParsedFrames == IF mpc = "dedup" THEN 1..Len(all_ocr_results) ELSE {}

\* the boxes parse_frame hands to _group_into_rows for frame f
GroupedBoxes(f) == RealBoxes(all_ocr_results[f], images[f].width, images[f].height)

\* every reordering of a list
Reorderings(list) ==
    {[k \in 1..Len(list) |-> list[q[k]]] : q \in Permutations(1..Len(list))}

\* the concatenated texts of the rows
RowTexts(rows) == [k \in 1..Len(rows) |-> RowText(rows[k])]

\* C13, as claimed: _group_into_rows returns the same rows, with the same
\* box order inside each row, for every reordering of the list of boxes it
\* is given.
C13_RowGroupingPermutationInvariant ==
    \A f \in ParsedFrames :
        \A shuffled \in Reorderings(GroupedBoxes(f)) :
            /\ _group_into_rows(shuffled) = _group_into_rows(GroupedBoxes(f))
            /\ RowTexts(_group_into_rows(shuffled)) = RowTexts(_group_into_rows(GroupedBoxes(f)))

\* the rows of frame f
Rows(f) == _group_into_rows(GroupedBoxes(f))

IsHeaderRow(row) == _is_date_header(RowText(row))

\* a row that is not a date header and in which some box starts with a time
IsTimedRow(row) ==
    /\ ~IsHeaderRow(row)
    /\ \E k \in 1..Len(row) : _extract_time_prefix(Chars(row[k].text)) # << >>

IsContinuationRow(row) == ~IsHeaderRow(row) /\ ~IsTimedRow(row)

TimedRows(rows, n) == {k \in 1..n : IsTimedRow(rows[k])}

\* C15: in every parsed frame the reminders are as many as the timed rows,
\* and each row contributes at most one: after the first n rows the frame
\* has one reminder per timed row among them (a header row and a row with no
\* time add none).  A frame whose image cannot be read has no reminders.
C15_OneReminderPerTimedRow ==
    \A f \in ParsedFrames :
        IF ~images[f].readable THEN all_reminders[f] = << >>
        ELSE /\ Len(all_reminders[f]) = Cardinality(TimedRows(Rows(f), Len(Rows(f))))
             /\ \A n \in 0..Len(Rows(f)) :
                   Len(ParseRows([current_date |-> << >>, reminders |-> << >>],
                                 SubSeq(Rows(f), 1, n), << >>, << >>).reminders)
                     = Cardinality(TimedRows(Rows(f), n))

\* a frame with a header row, a timed row with no body (a placeholder) and a
\* timed row with a body: three rows, two reminders
C15_Witness ==
    \E f \in ParsedFrames :
        /\ images[f].readable
        /\ Len(Rows(f)) = 3
        /\ \E k \in 1..3 : IsHeaderRow(Rows(f)[k])
        /\ Len(all_reminders[f]) = 2
        /\ \E j \in 1..2 : all_reminders[f][j].text = << >>

\* the row of frame f that produced its j-th reminder: the j-th timed row
ReminderRow(f, j) ==
    CHOOSE k \in TimedRows(Rows(f), Len(Rows(f))) :
        Cardinality(TimedRows(Rows(f), k)) = j

\* the nearest header row above row k of frame f, or 0
HeaderAbove(f, k) ==
    LET hs == {h \in 1..(k - 1) : IsHeaderRow(Rows(f)[h])}
    IN  IF hs = {} THEN 0 ELSE CHOOSE h \in hs : \A g \in hs : g <= h

\* C16, as claimed: the date label of every reminder is the text of the
\* nearest header row above it in its frame, or the default label.
C16_DateIsHeaderTextOrDefault ==
    \A f \in ParsedFrames :
        \A j \in 1..Len(all_reminders[f]) :
            LET h == HeaderAbove(f, ReminderRow(f, j))
            IN  all_reminders[f][j].date =
                   IF h = 0 THEN Chars(DEFAULT_INITIAL_DATE) ELSE RowText(Rows(f)[h])

\* C16, amended: the date label of every reminder is not empty; it is the
\* text of the nearest header row above it in its frame with a leading
\* "Tomorrow" and the whitespace after it removed, or the default label if no
\* header row precedes it in that frame; header rows emit nothing.
C16_DateIsHeaderTextWithoutTomorrowOrDefault ==
    \A f \in ParsedFrames :
        /\ Len(all_reminders[f]) <= Cardinality(TimedRows(Rows(f), Len(Rows(f))))
        /\ \A j \in 1..Len(all_reminders[f]) :
              LET h == HeaderAbove(f, ReminderRow(f, j))
              IN  /\ all_reminders[f][j].date # << >>
                  /\ all_reminders[f][j].date =
                        IF h = 0 THEN Chars(DEFAULT_INITIAL_DATE)
                        ELSE RemoveTomorrowPrefix(RowText(Rows(f)[h]))

\* the first frame has a "Tomorrow" header and a reminder under it; the
\* second frame has no header and its reminder gets the default label
C16_Witness ==
    /\ mpc = "dedup"
    /\ Len(all_reminders) = 2
    /\ Len(all_reminders[1]) = 1
    /\ Len(all_reminders[2]) = 1
    /\ HeaderAbove(1, ReminderRow(1, 1)) # 0
    /\ RowText(Rows(1)[HeaderAbove(1, ReminderRow(1, 1))]) = Chars("Tomorrow Sat 14 Feb")
    /\ all_reminders[1][1].date = <<"S","a","t"," ","1","4"," ","F","e","b">>
    /\ all_reminders[2][1].date = Chars(DEFAULT_INITIAL_DATE)

\* two digits, a colon, two digits
IsTimeForm(cs) ==
    /\ Len(cs) = 5
    /\ IsDigit(cs[1]) /\ IsDigit(cs[2])
    /\ cs[3] = ":"
    /\ IsDigit(cs[4]) /\ IsDigit(cs[5])

\* C14: every Reminder parse_frame produces has a time of the form two
\* digits, colon, two digits, and so has every reminder of the final
\* deduplicated list; '9:05' becomes '09:05' and '13.19' becomes '13:19'.
C14_TimeIsTwoDigitsColonTwoDigits ==
    /\ \A f \in 1..Len(all_reminders) : \A k \in 1..Len(all_reminders[f]) :
          IsTimeForm(all_reminders[f][k].time)
    /\ \A k \in 1..Len(reminders) : IsTimeForm(Chars(reminders[k].time))
    /\ _normalize_time(Chars("9:05")) = Chars("09:05")
    /\ _normalize_time(_extract_time_prefix(Chars("13.19 Call mom"))[1]) = Chars("13:19")

\* a frame whose detection "9.05 Dentist appointment" was parsed into a
\* reminder at 09:05, and the deduplicated list holds a reminder
C14_Witness ==
    /\ reminders # << >>
    /\ \E f \in 1..Len(all_reminders) :
          /\ Len(all_ocr_results[f]) = 1
          /\ all_ocr_results[f][1].text = "9.05 Dentist appointment"
          /\ Len(all_reminders[f]) = 1
          /\ all_reminders[f][1].time = Chars("09:05")

\* C17: when extract_frames returns no frame the run reports it and halts
\* before any OCR, parsing, deduplication or output step: the reader is never
\* created or invoked and no CSV is written.
C17_NoFramesHaltsBeforeOcr ==
    (mpc \notin {"start", "video_not_found"} /\ frame_paths = 0) =>
        /\ mpc = "no_stable_frames"
        /\ ~reader_created
        /\ all_ocr_results = << >>
        /\ all_reminders = << >>
        /\ reminders = << >>
        /\ ~csv_written /\ lines = << >>

\* extract_frames has returned no frame
C17_Witness == mpc = "no_stable_frames" /\ frame_paths = 0

\* C18: an oracle failure or an empty oracle result on one frame is never
\* fatal: the frame contributes an empty list at its own position and the
\* run goes on.  The run never ends in an uncaught exception, and after
\* parsing there is one list of reminders per frame, empty for a frame
\* without detections.
C18_OracleFailureNeverFatal ==
    /\ mpc # "crashed"
    /\ mpc \in {"dedup", "output", "done"} =>
          /\ Len(all_reminders) = frame_paths
          /\ \A f \in 1..frame_paths :
                all_ocr_results[f] = << >> => all_reminders[f] = << >>

\* a date label with a day-number/month token: its first day-and-word token
\* names a month
Resolvable(r) ==
    LET m == DateTokenSearch(Chars(r.date))
    IN  m # << >> /\ \E e \in MONTH_MAP : e[1] = LowerSeq(m[2])

\* C19: a reminder whose date label has no recognizable day-number/month
\* token is dropped, and write_csv still writes every other reminder in the
\* order received: the data lines are the lines of the reminders with a
\* resolvable label, in order, and there are as many.
C19_UnparseableDateDropped ==
    lines # << >> =>
        LET kept == SelectSeq(csv_input, Resolvable)
        IN  /\ lines[1] = CsvHeader
            /\ Len(lines) - 1 = Len(kept)
            /\ \A k \in 1..Len(kept) : lines[k + 1] = CsvLine(kept[k])

\* the file is written; the second of three reminders was dropped, the
\* first and the third were written
C19_Witness ==
    /\ csv_written
    /\ Len(csv_input) = 3
    /\ Resolvable(csv_input[1]) /\ ~Resolvable(csv_input[2]) /\ Resolvable(csv_input[3])
    /\ csv_input[1] # csv_input[3]
    /\ Len(lines) = 3

\* the reminders parse_frame holds after the first n rows of frame f
AfterRows(f, n) ==
    ParseRows([current_date |-> << >>, reminders |-> << >>], SubSeq(Rows(f), 1, n),
              images[f].icon_y_positions,
              OcrRepeatYs(all_ocr_results[f], images[f].width, images[f].height)).reminders

\* the first box of a row that yields a leading time token
FirstTimeBox(row) ==
    CHOOSE t \in 1..Len(row) :
        /\ _extract_time_prefix(Chars(row[t].text)) # << >>
        /\ \A u \in 1..(t - 1) : _extract_time_prefix(Chars(row[u].text)) = << >>

\* the remainder of the first time-yielding box (if any) followed by the
\* texts of the boxes after it
BodyParts(row) ==
    LET t == FirstTimeBox(row)
        remainder == _extract_time_prefix(Chars(row[t].text))[2]
    IN  (IF remainder # << >> THEN <<remainder>> ELSE << >>)
          \o [u \in 1..(Len(row) - t) |-> Chars(row[t + u].text)]

\* C21, as claimed: the body of the reminder of a timed row is the remainder
\* text of the first time-yielding box followed by the texts of the boxes
\* after it in row order, joined by single spaces; the text of a box before
\* the time-yielding box is not part of it.
C21_BodyIsRemainderAndFollowingBoxes ==
    \A f \in ParsedFrames :
        images[f].readable =>
            \A k \in TimedRows(Rows(f), Len(Rows(f))) :
                AfterRows(f, k)[Len(AfterRows(f, k))].text = JoinSpace(BodyParts(Rows(f)[k]))

\* a row with no time token in any of its boxes
NoTimeRow(row) == \A k \in 1..Len(row) : _extract_time_prefix(Chars(row[k].text)) = << >>

\* the effect the claim gives a row with no time: its joined text becomes a
\* new line of the last reminder and nothing else changes; with no reminder
\* yet the list stays empty
AppendedAsNewLine(before, row) ==
    IF before = << >> THEN << >>
    ELSE [before EXCEPT ![Len(before)].text = @ \o <<"\n">> \o RowText(row)]

\* C22, as claimed: every row with no time token in any of its boxes is
\* appended as a new line to the last reminder of its frame, or dropped when
\* the frame has no reminder yet.
C22_NoTimeRowIsContinuation ==
    \A f \in ParsedFrames :
        images[f].readable =>
            \A k \in 1..Len(Rows(f)) :
                NoTimeRow(Rows(f)[k]) =>
                    AfterRows(f, k) = AppendedAsNewLine(AfterRows(f, k - 1), Rows(f)[k])

\* C22, amended: a row that is not a date header and has no time token in
\* any of its boxes never creates a reminder: its joined text is appended as
\* a new line to the last reminder of its frame and nothing else changes, or
\* it is dropped when the frame has no reminder yet.  A date-header row
\* changes no reminder.
C22_NonHeaderNoTimeRowIsContinuation ==
    \A f \in ParsedFrames :
        images[f].readable =>
            \A k \in 1..Len(Rows(f)) :
                /\ IsContinuationRow(Rows(f)[k]) =>
                      AfterRows(f, k) = AppendedAsNewLine(AfterRows(f, k - 1), Rows(f)[k])
                /\ IsHeaderRow(Rows(f)[k]) => AfterRows(f, k) = AfterRows(f, k - 1)

\* a frame with a timed row followed by a continuation row, and a frame that
\* starts with a continuation row and has no reminder
C22_Witness ==
    /\ \E f \in ParsedFrames :
          /\ images[f].readable
          /\ Len(Rows(f)) = 2
          /\ IsTimedRow(Rows(f)[1]) /\ IsContinuationRow(Rows(f)[2])
          /\ Len(all_reminders[f]) = 1
          /\ all_reminders[f][1].text =
                AfterRows(f, 1)[1].text \o <<"\n">> \o Chars("see notes")
    /\ \E f \in ParsedFrames :
          /\ images[f].readable
          /\ Len(Rows(f)) = 1
          /\ IsContinuationRow(Rows(f)[1])
          /\ all_reminders[f] = << >>

\* the first row after row k of frame f that is not a date header, or 0
NextNonHeaderRow(f, k) ==
    LET ns == {n \in (k + 1)..Len(Rows(f)) : ~IsHeaderRow(Rows(f)[n])}
    IN  IF ns = {} THEN 0 ELSE CHOOSE n \in ns : \A o \in ns : n <= o

\* C23, as claimed: a timed row with an empty body emits a placeholder with
\* empty text, and when the next non-header row is a continuation row the
\* placeholder's text becomes exactly that row's joined text.
C23_PlaceholderFilledWithRowText ==
    \A f \in ParsedFrames :
        images[f].readable =>
            \A k \in TimedRows(Rows(f), Len(Rows(f))) :
                BodyParts(Rows(f)[k]) = << >> /\ FirstTimeBox(Rows(f)[k]) = 1 =>
                    LET j == Len(AfterRows(f, k))
                        n == NextNonHeaderRow(f, k)
                    IN  /\ AfterRows(f, k)[j].text = << >>
                        /\ (n # 0 /\ IsContinuationRow(Rows(f)[n])) =>
                              AfterRows(f, n)[j].text = RowText(Rows(f)[n])

\* how many times a box occurs in a list
CountIn(b, list) == Cardinality({k \in 1..Len(list) : list[k] = b})

SameBoxes(a, b) ==
    /\ Len(a) = Len(b)
    /\ \A k \in 1..Len(a) : CountIn(a[k], a) = CountIn(a[k], b)

\* the sub-lines of a row: its boxes from top to bottom, clustered with the
\* tighter tolerance
SubLinesOf(row) ==
    LET by_y == SortedByYCenter(row)
    IN  Cluster(Tail(by_y), <<Head(by_y)>>, << >>, SUB_LINE_TOLERANCE)

RECURSIVE BoxesBefore(_, _)
BoxesBefore(sub_lines, s) ==
    IF s = 1 THEN 0 ELSE Len(sub_lines[s - 1]) + BoxesBefore(sub_lines, s - 1)

\* the part of the row that holds sub-line s
Segment(row, sub_lines, s) ==
    SubSeq(row, BoxesBefore(sub_lines, s) + 1, BoxesBefore(sub_lines, s) + Len(sub_lines[s]))

\* C24: row grouping loses and duplicates nothing and yields reading order:
\* the rows together hold every box exactly once, the rows go from top to
\* bottom, and each row is its sub-lines from top to bottom, each with x_min
\* ascending, so that no box of a later sub-line stands between two boxes of
\* an earlier one.
C24_RowsInReadingOrder ==
    \A f \in ParsedFrames :
        LET rows == Rows(f)
        IN  /\ SameBoxes(Concat(rows), GroupedBoxes(f))
            /\ \A k \in 1..Len(rows) : rows[k] # << >>
            /\ \A k \in 1..(Len(rows) - 1) :
                  \A a \in 1..Len(rows[k]) : \A b \in 1..Len(rows[k + 1]) :
                      YCenter2(rows[k][a]) <= YCenter2(rows[k + 1][b])
            /\ \A k \in 1..Len(rows) :
                  LET sub_lines == SubLinesOf(rows[k])
                  IN  \A l \in 1..Len(sub_lines) :
                          LET segment == Segment(rows[k], sub_lines, l)
                          IN  /\ SameBoxes(segment, sub_lines[l])
                              /\ \A a \in 1..(Len(segment) - 1) :
                                    segment[a].x_min <= segment[a + 1].x_min

\* a row of two sub-lines whose second line starts left of the last box of
\* the first line
C24_Witness ==
    \E f \in ParsedFrames :
        /\ Len(Rows(f)) = 1
        /\ Len(Rows(f)[1]) = 3
        /\ Len(SubLinesOf(Rows(f)[1])) = 2
        /\ Len(SubLinesOf(Rows(f)[1])[1]) = 2
        /\ Rows(f)[1][1].x_min < Rows(f)[1][2].x_min
        /\ Rows(f)[1][3].x_min < Rows(f)[1][2].x_min
        /\ YCenter2(Rows(f)[1][3]) > YCenter2(Rows(f)[1][2])

\* the boxes of frame f classified as readings of the recurrence icon
IconBoxes(f) ==
    SelectSeq(_filter_content_boxes(all_ocr_results[f], images[f].height),
              LAMBDA b : _is_repeat_icon_ocr(b, images[f].width))

\* an icon position lies within the tolerance of the mean y-centre of the
\* row: a pixel-detected position, or the y-centre of an icon reading
IconNearRow(f, row) ==
    \/ \E k \in 1..Len(images[f].icon_y_positions) :
          Abs(SumYCenter2(row) - 2 * Len(row) * images[f].icon_y_positions[k])
            < 2 * ICON_ROW_TOLERANCE * Len(row)
    \/ \E k \in 1..Len(IconBoxes(f)) :
          Abs(SumYCenter2(row) - Len(row) * YCenter2(IconBoxes(f)[k]))
            < 2 * ICON_ROW_TOLERANCE * Len(row)

\* C30, as claimed: the reminder of a timed row has repeats = true exactly
\* when an icon position (pixel-detected, or the y-centre of a box classified
\* as an icon reading) lies within the tolerance of the row's mean y-centre;
\* the icon readings are in no row and add nothing to a confidence.
C30_RepeatsIffIconNearRow ==
    \A f \in ParsedFrames :
        images[f].readable =>
            /\ \A k \in 1..Len(Rows(f)) : \A b \in 1..Len(Rows(f)[k]) :
                  ~_is_repeat_icon_ocr(Rows(f)[k][b], images[f].width)
            /\ \A j \in 1..Len(all_reminders[f]) :
                  LET row == Rows(f)[ReminderRow(f, j)]
                  IN  /\ all_reminders[f][j].repeats = IconNearRow(f, row)
                      /\ all_reminders[f][j].confidence = <<SumConfidence(row), Len(row)>>

(***************************************************************************)
(* Properties of the selection of the representative                       *)
(***************************************************************************)

\* C29: whenever a stable period is captured, the frame saved is the element
\* at position floor(n/2) (0-based) of the n buffered frames, whatever the
\* value of edge_skip and whichever branch computes the position; the two
\* branches agree on every buffer length and every edge_skip.
C29_RepresentativeAtMiddleOfBuffer ==
    [][/\ Len(saved_frames') > Len(saved_frames) =>
            saved_frames'[Len(saved_frames')].frame =
                frame_buffer[(Len(frame_buffer) \div 2) + 1]
       /\ \A n \in 1..MaxVideoFrames : \A skip \in 0..MaxSkip :
            PickPosition(n, skip) = n \div 2]_vars

\* a video with both kinds of period has been scanned: one captured by the
\* untrimmed fallback, one by the edge-trimmed selection
C29_Witness ==
    /\ spc = "done"
    /\ stability_skip_frames >= 1
    /\ \E j, k \in 1..Len(saved_frames) :
          /\ saved_frames[j].duration <= 2 * stability_skip_frames
          /\ saved_frames[k].duration > 2 * stability_skip_frames
          /\ saved_frames[k].frame =
                saved_frames[k].first + 1 + (saved_frames[k].duration \div 2)

(***************************************************************************)
(* Properties of one step of the scan                                      *)
(***************************************************************************)

\* the stored entries at which the scan could stop for this reminder
Stops(list, r) == {i \in 1..Len(list) : StopsAt(list, i, r)}

\* C25: an incoming reminder with non-empty text that no stored entry matches
\* under either rule is appended, and no stored entry changes; otherwise the
\* length is unchanged and the only entry that may change is the lowest-index
\* one at which a rule fires, on which the identity rule is tried before the
\* substring rule; the entries after it are left as they were.
C25_AppendOrMergeIntoFirstMatch ==
    [][TakesReminder =>
        LET r == Incoming'
            stops == Stops(merged, r)
        IN  NonEmpty(r) =>
              IF stops = {}
              THEN merged' = Append(merged, r)
              ELSE /\ Len(merged') = Len(merged)
                   /\ \A j \in 1..Len(merged) :
                         (\E i \in stops : i < j) \/ (j \notin stops)
                           => merged'[j] = merged[j]
                   /\ \A i \in stops : (\A n \in stops : i <= n) =>
                         LET replaced == IF _reminders_match(merged[i], r)
                                         THEN r.confidence > merged[i].confidence
                                         ELSE ShorterAndConfidentEnough(merged[i], r)
                         IN  /\ merged'[i].text =
                                   IF replaced THEN r.text ELSE merged[i].text
                             /\ merged'[i].confidence =
                                   IF replaced THEN r.confidence ELSE merged[i].confidence
      ]_vars

\* the merged list before the last reminder consumed was taken
BeforeLast == MergeAll(<< >>, SubSeq(Consumed, 1, Len(Consumed) - 1))

\* a reminder that two stored entries match has been merged into the first
\* of them and has left the second as it was; and a reminder that no stored
\* entry matches has been appended
C25_Witness ==
    /\ dpc = "merging"
    /\ Len(Consumed) = 3
    /\ NonEmpty(Consumed[3])
    /\ Len(BeforeLast) = 2
    /\ Stops(BeforeLast, Consumed[3]) = {1, 2}
    /\ Len(merged) = 2
    /\ merged[1] # BeforeLast[1]
    /\ merged[2] = BeforeLast[2]
    /\ Stops(<<Consumed[1]>>, Consumed[2]) = {}
    /\ BeforeLast = <<Consumed[1], Consumed[2]>>

\* the entry the k-th reminder consumed went to: 0 for a reminder with empty
\* text (dropped), a new entry when no stored entry matched it, otherwise
\* the lowest-index stored entry that matched it under either rule
TargetOf(k) ==
    LET before == MergeAll(<< >>, SubSeq(Consumed, 1, k - 1))
        stops == Stops(before, Consumed[k])
    IN  IF ~NonEmpty(Consumed[k]) THEN 0
        ELSE IF stops = {} THEN Len(before) + 1
        ELSE CHOOSE i \in stops : \A n \in stops : i <= n

\* the repeats flag of every merged entry is the OR of the flags of the
\* observations folded into it
RepeatsIsOrOfFolded ==
    \A i \in 1..Len(merged) :
        merged[i].repeats =
            (\E k \in 1..Len(Consumed) : TargetOf(k) = i /\ Consumed[k].repeats)

\* the merged list as it was after the first p reminders consumed
MergedAfter(p) == MergeAll(<< >>, SubSeq(Consumed, 1, p))

\* C26: at every point of deduplication the repeats flag of a merged entry
\* is the logical OR of the flags of every observation folded into it under
\* either rule, whichever text won; and an entry whose flag was true at an
\* earlier point of the run still has it true.
C26_RepeatsIsOrAndSticky ==
    /\ RepeatsIsOrOfFolded
    /\ merged = MergedAfter(Len(Consumed))
    /\ \A p \in 0..Len(Consumed) :
          /\ Len(MergedAfter(p)) <= Len(merged)
          /\ \A i \in 1..Len(MergedAfter(p)) :
                MergedAfter(p)[i].repeats => merged[i].repeats

\* a flagged observation lost its text to a more confident unflagged one
\* under the identity rule, then an unflagged shorter text replaced the
\* stored one under the substring rule: the entry is still flagged
C26_Witness ==
    /\ Len(Consumed) = 3
    /\ Consumed[1].repeats /\ ~Consumed[2].repeats /\ ~Consumed[3].repeats
    /\ _reminders_match(Consumed[1], Consumed[2])
    /\ Consumed[2].confidence > Consumed[1].confidence
    /\ MergedAfter(2) = <<[Consumed[2] EXCEPT !.repeats = TRUE]>>
    /\ ~_reminders_match(MergedAfter(2)[1], Consumed[3])
    /\ _is_substring_match(MergedAfter(2)[1], Consumed[3])
    /\ Len(merged) = 1
    /\ merged[1].text = Consumed[3].text
    /\ merged[1].repeats

(***************************************************************************)
(* Properties of the merged list as a whole                                *)
(***************************************************************************)

\* C27, as claimed: no two distinct entries of the list deduplicate returns
\* satisfy the identity rule with each other.
C27_NoTwoEntriesMatch ==
    dpc = "done" =>
        \A i, j \in 1..Len(result) : i # j => ~_reminders_match(result[i], result[j])

\* C28, as claimed: deduplicate applied to the list it returned, given as a
\* single frame, returns the same entries in the same order.
C28_Idempotent ==
    dpc = "done" => deduplicate(<<result>>) = result

=============================================================================
